---- MODULE Spec2Model ----
(***************************************************************************)
(* cloudflare-dyndns: the poll controller (DynDnsApp), its shutdown        *)
(* handling, the last-IP store (IpFileManager) and the process entry point *)
(* (index.ts), as a state machine.                                         *)
(*                                                                         *)
(* A cycle (runOnce) is split at its await points: the calls to            *)
(* initialize, verifyCredentials, detectIp and updateDnsRecord.  Between   *)
(* two await points the code runs to completion, so each action below is   *)
(* the resumption after one awaited call up to the next await.  Signal     *)
(* handlers run only while the event loop is idle, i.e. at an await.       *)
(*                                                                         *)
(* DynDnsApp.ts holds the class twice; the copies differ in the loop       *)
(* condition of startMonitoring only, which loopByFlag selects.            *)
(* configManager.validate() throws exactly when configExists() is false,   *)
(* which runOnce has excluded before calling it; runOnce catches every     *)
(* error, so the catch branch of startMonitoring (the fixed 30 s pause)    *)
(* is never entered.  Neither has an action of its own.                    *)
(* The last-IP file is readable, and writable, for the whole run or not    *)
(* at all (fileReadable, fileWritable); nothing but saveIp writes it.      *)
(*                                                                         *)
(* IpDetectionService.detectIp and the request layer of CloudflareService  *)
(* (makeApiRequest, handleApiChange) are followed call by call in          *)
(* specifications of their own (SpecDetect, SpecIpv4, SpecApi); in Spec a  *)
(* call of either is one step with an arbitrary outcome.                   *)
(***************************************************************************)
EXTENDS Integers, Sequences, FiniteSets, TLC

\* ------------------------------------------------------------------ bounds
MaxCycles == 2      \* cycles (runOnce calls) one process is followed for
MaxSignals == 2     \* SIGINT/SIGTERM deliveries one process is followed for
MaxCalls == 12      \* calculateNextInterval calls in SpecInterval
MaxProviders == 3   \* names in IP_SERVICES
MaxGroups == 5      \* dot-separated groups in a provider's answer
MaxRequests == 2    \* makeApiRequest calls one service is followed for
MaxAttempts == 3    \* RETRY_ATTEMPTS
MaxZones == 3       \* zones the zone listing returns
MaxSets == 2        \* calls of ConfigManager.set()
MaxInits == 2       \* calls of CloudflareService.initialize()

\* ------------------------------------------------------- program constants
DefaultCheckInterval == 60000
maxInterval == 300000
minInterval == 30000
backoffFactor == 5000

\* ------------------------------------------------------------ value domains
NoIp == "null"                                  \* the null of getLastIp()
PublicIps == {"203.0.113.5", "198.51.100.9"}    \* what detectIp() may return
MockIps == {"192.168.1.0", "192.168.1.254"}     \* '192.168.1.' + 0..254
Ips == PublicIps \cup MockIps
CheckIntervals == {DefaultCheckInterval, 10000} \* default, or CHECK_INTERVAL
TokenValues == {"", "token", "dev_mock_token"}
DomainValues == {"", "example.com"}
SubdomainValues == {" ", "home"}
\* content of the last-IP file: an address, possibly followed by whitespace
FileContents == [text : PublicIps, ws : BOOLEAN]
NoFile == [text |-> NoIp, ws |-> FALSE]         \* the file does not exist

VARIABLES
  continuous,               \* --continuous / options.continuous
  loopByFlag,               \* startMonitoring loops `while (this.isRunning)`
                            \* (TRUE) or `while (true)` (FALSE)
  adaptiveInterval,
  checkInterval,
  devMode,                  \* DEVELOPMENT_MODE === 'true' && debugMode
  config,                   \* the required fields held by ConfigManager
  skipCredentialCheck,      \* process.env.SKIP_CREDENTIAL_CHECK is set
  fileReadable,             \* readFileSync of the last-IP file succeeds
  fileWritable,             \* writeFileSync of the last-IP file succeeds
  isRunning,
  shutdownRequested,
  consecutiveStableChecks,
  nextInterval,             \* local of startMonitoring
  ipChanged,                \* local of startMonitoring
  currentIp,                \* local of runOnce
  pc,                       \* where the process is suspended
  result,                   \* what the last completed runOnce returned
  exitCode,                 \* -1 while the process is alive
  exitVia,                  \* which statement ended the process
  lastIpFile,               \* the last-IP file on disk
  dnsRecord,                \* content of the A record at Cloudflare
  cycleLog,                 \* calls made by the current (or last) cycle
  prevLog,                  \* calls made by the cycle before it
  prevResult,               \* what the cycle before it returned
  cycles,                   \* runOnce calls so far
  signals,                  \* signals delivered so far
  det,                      \* the detectIp() call of IpDetectionService
  candidate,                \* groups of the text a provider is about to send
  api,                      \* the makeApiRequest() call of CloudflareService
  upd,                      \* the updateDnsRecord() call of CloudflareService
  ini,                      \* the initialize() call of CloudflareService
  ver,                      \* the verifyCredentials() call of CloudflareService
  cm                        \* a ConfigManager and what it was built from

appEnv == <<continuous, loopByFlag, adaptiveInterval, checkInterval, devMode,
            config, fileReadable, fileWritable>>
serviceVars == <<det, candidate, api, upd, ini, ver, cm>>
envVars == <<appEnv, serviceVars>>
loopVars == <<consecutiveStableChecks, nextInterval, ipChanged>>
histVars == <<cycleLog, prevLog, prevResult, cycles>>
vars == <<continuous, loopByFlag, adaptiveInterval, checkInterval, devMode,
          config, skipCredentialCheck, fileReadable, fileWritable, isRunning,
          shutdownRequested, consecutiveStableChecks, nextInterval, ipChanged,
          currentIp, pc, result, exitCode, exitVia, lastIpFile, dnsRecord,
          cycleLog, prevLog, prevResult, cycles, signals, det, candidate,
          api, upd, ini, ver, cm>>
appVars == <<appEnv, skipCredentialCheck, isRunning, shutdownRequested,
             consecutiveStableChecks, nextInterval, ipChanged, currentIp, pc,
             result, exitCode, exitVia, lastIpFile, dnsRecord, cycleLog,
             prevLog, prevResult, cycles, signals>>

AwaitPoints == {"initialize", "verifyCredentials", "detectIp",
                "updateDnsRecord", "sleep"}

Min(a, b) == IF a < b THEN a ELSE b

\* ------------------------------------------------------------ ConfigManager
\* !value || value.trim() === ''
IsBlank(value) == value \in {"", " "}

configExists(cfg) ==
  /\ ~IsBlank(cfg.API_TOKEN)
  /\ ~IsBlank(cfg.DOMAIN_NAME)
  /\ ~IsBlank(cfg.SUBDOMAIN)

needsSetupNever(cfg) == FALSE

needsSetup(cfg) == ~configExists(cfg)

RequiredEnvVars == {"API_TOKEN", "DOMAIN_NAME", "SUBDOMAIN"}

\* validate(): the fields its filter finds missing, and whether it throws
\* (the message is the list of those fields)
validate(cfg) ==
  LET missing == {envVar \in RequiredEnvVars : IsBlank(cfg[envVar])}
  IN [missing |-> missing, throws |-> Cardinality(missing) > 0]

\* API_TOKEN.startsWith('dev_mock_')
StartsWithDevMock(token) == token \in {"dev_mock_token"}

\* ------------------------------------------------------------ IpFileManager
\* the content of a file that cannot be read
getLastIpReadsAnyway(file, readable) ==
  IF file = NoFile THEN NoIp ELSE file.text

\* existsSync, then readFileSync(...).trim(); null when absent or on error
getLastIp(file, readable) ==
  IF file = NoFile THEN NoIp
  ELSE IF readable THEN file.text
  ELSE NoIp

saveIpKeepsOld(file, ip, writable) == [file |-> file, ok |-> TRUE]

\* writeFileSync(path, ip): the new content, and the boolean returned
saveIp(file, ip, writable) ==
  IF writable THEN [file |-> [text |-> ip, ws |-> FALSE], ok |-> TRUE]
  ELSE [file |-> file, ok |-> FALSE]

\* ------------------------------------------------------- IpDetectionService
\* A text is a sequence of characters; a provider's answer (response.data)
\* is a text (kind "string"), a JSON object whose ip field is a text (kind
\* "object", an absent ip being the empty text) or no answer at all (kind
\* "error": timeout, refused connection, HTTP error status).
Digits == {"0", "1", "2", "3", "4", "5", "6", "7", "8", "9"}
Whitespace == {" ", "\n"}

DigitValue(c) ==
  CASE c = "0" -> 0 [] c = "1" -> 1 [] c = "2" -> 2 [] c = "3" -> 3
    [] c = "4" -> 4 [] c = "5" -> 5 [] c = "6" -> 6 [] c = "7" -> 7
    [] c = "8" -> 8 [] c = "9" -> 9

\* Number(s) for a text of decimal digits
RECURSIVE Number(_)
Number(s) ==
  IF s = <<>> THEN 0
  ELSE 10 * Number(SubSeq(s, 1, Len(s) - 1)) + DigitValue(s[Len(s)])

\* s.split('.')
RECURSIVE split(_)
split(s) ==
  IF \A i \in 1..Len(s) : s[i] # "." THEN <<s>>
  ELSE LET k == CHOOSE i \in 1..Len(s) :
                  s[i] = "." /\ \A j \in 1..(i - 1) : s[j] # "."
       IN <<SubSeq(s, 1, k - 1)>> \o split(SubSeq(s, k + 1, Len(s)))

\* s.trim()
RECURSIVE trim(_)
trim(s) ==
  IF s = <<>> THEN s
  ELSE IF s[1] \in Whitespace THEN trim(Tail(s))
  ELSE IF s[Len(s)] \in Whitespace THEN trim(SubSeq(s, 1, Len(s) - 1))
  ELSE s

\* /^(\d{1,3})\.(\d{1,3})\.(\d{1,3})\.(\d{1,3})$/.test(s): the positions the
\* matcher can stand at after each piece of the pattern, starting at 1; the
\* pattern matches when the position behind the last character is among them.
DigitRun(s, P) ==
  UNION {{j \in (i + 1)..Min(i + 3, Len(s) + 1) :
            \A k \in i..(j - 1) : s[k] \in Digits} : i \in P}
Dot(s, P) == {i + 1 : i \in {p \in P : p <= Len(s) /\ s[p] = "."}}
ipv4Regex(s) ==
  (Len(s) + 1) \in
    DigitRun(s, Dot(s, DigitRun(s, Dot(s, DigitRun(s, Dot(s,
      DigitRun(s, {1})))))))

isValidIpv4NoRange(ip) ==
  IF ip = <<>> THEN FALSE ELSE ipv4Regex(ip)

isValidIpv4(ip) ==
  IF ip = <<>> THEN FALSE
  ELSE IF ~ipv4Regex(ip) THEN FALSE
  ELSE \A i \in DOMAIN split(ip) :
         Number(split(ip)[i]) >= 0 /\ Number(split(ip)[i]) <= 255

\* the parser every catalog entry has
parser(data) == IF data.kind = "string" THEN trim(data.text) ELSE data.text

Catalog == {"ipify", "ifconfig", "ipinfo", "seeip", "ipapi", "myip"}
DefaultServices == <<"ipify", "ifconfig", "ipinfo", "seeip">>
\* the names IP_SERVICES is drawn from; "bogus" is in no catalog
ConfiguredNames == {"ipify", "myip", "bogus"}

\* the constructor: an empty list is replaced by the default list
IpDetectionService(ipServices) ==
  [ipServices    |-> IF Len(ipServices) > 0 THEN ipServices
                     ELSE DefaultServices,
   shuffled      |-> <<>>,    \* shuffledServices
   pos           |-> 0,       \* index in shuffled of the service asked
   requests      |-> <<>>,    \* services a request was sent to, in order
   answers       |-> <<>>,    \* what each of them answered
   errorMessages |-> <<>>,
   state         |-> "idle",  \* idle, awaiting, returned, threw
   ip            |-> <<>>]    \* the address returned

\* the first index from i on whose service is in the catalog
RECURSIVE NextKnown(_, _)
NextKnown(order, i) ==
  IF i > Len(order) THEN i
  ELSE IF order[i] \in Catalog THEN i
  ELSE NextKnown(order, i + 1)

\* the for loop of detectIp from index i up to its next await, or to the
\* throw behind the loop
detectIpLoop(d, i) ==
  LET k == NextKnown(d.shuffled, i)
  IN IF k > Len(d.shuffled)
     THEN [d EXCEPT !.state = "threw", !.pos = k]
     ELSE [d EXCEPT !.state = "awaiting", !.pos = k,
                    !.requests = Append(@, d.shuffled[k])]

ErrorMessage(service, reason) == [service |-> service, reason |-> reason]

\* a failed provider ends the whole detection
detectIpStepFatal(d, data) ==
  LET logged == [d EXCEPT !.answers = Append(@, data)]
  IN IF data.kind # "error" /\ data # [kind |-> "string", text |-> <<>>]
        /\ isValidIpv4(parser(data))
     THEN [logged EXCEPT !.state = "returned", !.ip = parser(data)]
     ELSE [logged EXCEPT !.state = "threw"]

\* an answer that is no address leaves no error message
detectIpStepUnrecorded(d, data) ==
  LET service == d.shuffled[d.pos]
      logged == [d EXCEPT !.answers = Append(@, data)]
      Failed(reason) ==
        detectIpLoop([logged EXCEPT !.errorMessages =
                        Append(@, ErrorMessage(service, reason))], d.pos + 1)
  IN IF data.kind = "error" THEN Failed("Failed to detect IP")
     ELSE IF data = [kind |-> "string", text |-> <<>>]
     THEN Failed("Failed to detect IP")
     ELSE IF isValidIpv4(parser(data))
     THEN [logged EXCEPT !.state = "returned", !.ip = parser(data)]
     ELSE detectIpLoop(logged, d.pos + 1)

\* the body of the loop from the answer of the service asked: the request
\* failed, the answer is empty (thrown and caught in the same iteration),
\* the parsed answer is an address, or it is not
detectIpStep(d, data) ==
  LET service == d.shuffled[d.pos]
      logged == [d EXCEPT !.answers = Append(@, data)]
      Failed(reason) ==
        detectIpLoop([logged EXCEPT !.errorMessages =
                        Append(@, ErrorMessage(service, reason))], d.pos + 1)
  IN IF data.kind = "error" THEN Failed("Failed to detect IP")
     ELSE IF data = [kind |-> "string", text |-> <<>>]
     THEN Failed("Failed to detect IP")
     ELSE IF isValidIpv4(parser(data))
     THEN [logged EXCEPT !.state = "returned", !.ip = parser(data)]
     ELSE Failed("Invalid IP format")

\* -------------------------------------------------------- CloudflareService
\* An endpoint is the sequence of its path segments: /zones/z/dns_records
\* is <<"zones", "z", "dns_records">>.  An answer is its HTTP status, 0 for
\* a request that got no answer (network error, timeout); axios resolves on
\* 2xx and rejects on everything else.
ApiVersions == {"v4", "v5", "v3", "v1"}     \* API_VERSION of the configuration
Endpoints == {<<"zones">>, <<"zones", "z", "dns_records">>,
              <<"zones", "z", "dns_records", "r">>,
              <<"user", "tokens", "verify">>}
Statuses == {0, 200, 204, 404, 500}
Resolves(status) == status >= 200 /\ status < 300

\* endpoint.includes('/' + segment)
includes(endpoint, segment) ==
  \E i \in 1..Len(endpoint) : endpoint[i] = segment

\* endpoint.replace('/' + segment, by): the first occurrence only
replace(endpoint, segment, by) ==
  IF ~includes(endpoint, segment) THEN endpoint
  ELSE LET k == CHOOSE i \in 1..Len(endpoint) :
                  endpoint[i] = segment
                  /\ \A j \in 1..(i - 1) : endpoint[j] # segment
       IN SubSeq(endpoint, 1, k - 1) \o by
            \o SubSeq(endpoint, k + 1, Len(endpoint))

\* the constructor
CloudflareService(version) ==
  [apiVersion |-> version,
   endpoint   |-> <<>>,      \* argument of the makeApiRequest in progress
   state      |-> "idle",    \* idle, primary, alternative, returned, threw,
                             \* probing, probed
   pos        |-> 0,         \* index of the alternative asked
   requests   |-> <<>>,      \* [version, endpoint] of each request sent
   statuses   |-> <<>>,      \* the status each of them was answered with
   response   |-> 0,         \* index of the request whose data is returned
   error      |-> -1,        \* status of the error thrown, -1 for none
   probeOk    |-> <<>>,      \* data.success of each detectApiVersion answer
   calls      |-> 0]         \* makeApiRequest calls so far

Request(version, endpoint) == [version |-> version, endpoint |-> endpoint]

\* the spellings are tried before the versions
alternativesSpellingsFirst(endpoint, apiVersion) ==
  LET Other(v) == v # apiVersion
      alternativeVersions == SelectSeq(<<"v5", "v4", "v3">>, Other)
      alternativeEndpoints ==
        <<replace(endpoint, "dns_records", <<"dns">>),
          replace(endpoint, "dns_records", <<"dns_records", "v2">>)>>
  IN (IF includes(endpoint, "dns_records")
      THEN [i \in 1..2 |->
              [version |-> apiVersion, endpoint |-> alternativeEndpoints[i],
               sticky |-> FALSE]]
      ELSE <<>>)
     \o
     (IF includes(endpoint, "zones") \/ includes(endpoint, "dns_records")
      THEN [i \in 1..Len(alternativeVersions) |->
              [version |-> alternativeVersions[i], endpoint |-> endpoint,
               sticky |-> TRUE]]
      ELSE <<>>)

\* the requests handleApiChange sends as long as none is accepted: the two
\* loops in program order; sticky marks those that set this.apiVersion
alternatives(endpoint, apiVersion) ==
  LET Other(v) == v # apiVersion
      alternativeVersions == SelectSeq(<<"v5", "v4", "v3">>, Other)
      alternativeEndpoints ==
        <<replace(endpoint, "dns_records", <<"dns">>),
          replace(endpoint, "dns_records", <<"dns_records", "v2">>)>>
  IN (IF includes(endpoint, "zones") \/ includes(endpoint, "dns_records")
      THEN [i \in 1..Len(alternativeVersions) |->
              [version |-> alternativeVersions[i], endpoint |-> endpoint,
               sticky |-> TRUE]]
      ELSE <<>>)
     \o
     (IF includes(endpoint, "dns_records")
      THEN [i \in 1..2 |->
              [version |-> apiVersion, endpoint |-> alternativeEndpoints[i],
               sticky |-> FALSE]]
      ELSE <<>>)

\* the error of the last alternative is thrown
handleApiChangeRaisesLast(a, i) ==
  LET alts == alternatives(a.endpoint, a.apiVersion)
  IN IF i > Len(alts)
     THEN [a EXCEPT !.state = "threw", !.pos = i,
                    !.error = a.statuses[Len(a.statuses)]]
     ELSE [a EXCEPT !.state = "alternative", !.pos = i,
                    !.requests = Append(@, Request(alts[i].version,
                                                   alts[i].endpoint))]

\* handleApiChange from alternative i on: send it, or throw originalError
handleApiChange(a, i) ==
  LET alts == alternatives(a.endpoint, a.apiVersion)
  IN IF i > Len(alts)
     THEN [a EXCEPT !.state = "threw", !.pos = i, !.error = a.statuses[1]]
     ELSE [a EXCEPT !.state = "alternative", !.pos = i,
                    !.requests = Append(@, Request(alts[i].version,
                                                   alts[i].endpoint))]

\* makeApiRequest from the answer to its own request
makeApiRequestAnswered(a, status) ==
  LET logged == [a EXCEPT !.statuses = Append(@, status)]
  IN IF Resolves(status)
     THEN [logged EXCEPT !.state = "returned", !.response = 1]
     ELSE IF status = 404 THEN handleApiChange(logged, 1)
     ELSE [logged EXCEPT !.state = "threw", !.error = status]

\* an accepted alternative version is not remembered
handleApiChangeAnsweredNotSticky(a, status) ==
  LET logged == [a EXCEPT !.statuses = Append(@, status)]
  IN IF status = 200
     THEN [logged EXCEPT !.state = "returned",
                         !.response = Len(a.requests)]
     ELSE handleApiChange(logged, a.pos + 1)

\* handleApiChange from the answer to the alternative asked
handleApiChangeAnswered(a, status) ==
  LET alt == alternatives(a.endpoint, a.apiVersion)[a.pos]
      logged == [a EXCEPT !.statuses = Append(@, status)]
  IN IF status = 200
     THEN [logged EXCEPT !.state = "returned",
                         !.response = Len(a.requests),
                         !.apiVersion = IF alt.sticky THEN alt.version ELSE @]
     ELSE handleApiChange(logged, a.pos + 1)

\* detectApiVersion from version i of its list on: probe it, or give up
\* and keep this.apiVersion
ProbeVersions == <<"v4", "v5", "v3">>
detectApiVersion(a, i) ==
  IF i > Len(ProbeVersions)
  THEN [a EXCEPT !.state = "probed", !.pos = i]
  ELSE [a EXCEPT !.state = "probing", !.pos = i,
                 !.requests = Append(@, Request(ProbeVersions[i],
                                                <<"zones">>))]

\* detectApiVersion from the answer to the probe sent
detectApiVersionAnswered(a, status, success) ==
  LET logged == [a EXCEPT !.statuses = Append(@, status),
                          !.probeOk = Append(@, success)]
  IN IF status = 200 /\ success
     THEN [logged EXCEPT !.state = "probed", !.response = Len(a.requests),
                         !.apiVersion = ProbeVersions[a.pos]]
     ELSE detectApiVersion(logged, a.pos + 1)

\* ---------------------------------- CloudflareService: updateDnsRecord
\* What one attempt (the makeApiRequest of the PUT) ends with: the response
\* body, whose success flag is true, false or absent ("none"), or an error
\* with its HTTP status (0: no answer) and, for a 429, the text of its
\* retry-after header (<<>>: no such header).
Bodies == {[kind |-> "data", success |-> f] : f \in {"true", "false", "none"}}
Failures ==
  {[kind |-> "error", status |-> st, retryAfter |-> <<>>] :
     st \in {0, 403, 429, 500}}
  \cup {[kind |-> "error", status |-> 429, retryAfter |-> h] :
          h \in {<<"2">>, <<"0">>, <<"1", "0">>}}
Outcomes == Bodies \cup Failures
NoError == [kind |-> "none"]
GenericError == [kind |-> "generic"]   \* Error('Operation failed after retries')
RetryDelays == {5000, 1000}            \* default, or RETRY_DELAY

\* parseInt(s, 10) of a text of decimal digits
parseInt(s) == Number(s)

\* the service holding a configuration with the given retry policy;
\* resolved: ZONE_ID and RECORD_ID are set; idGuard: updateDnsRecord is the
\* copy that checks them first
UpdateService(attempts, delay, resolved, idGuard) ==
  [RETRY_ATTEMPTS |-> attempts,
   RETRY_DELAY    |-> delay,
   resolved       |-> resolved,
   idGuard        |-> idGuard,
   newIp          |-> NoIp,
   state          |-> "idle",   \* idle, attempt, waiting, returned
   attempt        |-> 0,
   puts           |-> <<>>,     \* content of each PUT sent
   outcomes       |-> <<>>,     \* what each attempt ended with
   waits          |-> <<>>,     \* ms slept after each failed attempt
   lastError      |-> NoError,
   thrown         |-> NoError,  \* what retryOperation threw
   result         |-> "none"]   \* what updateDnsRecord returned

\* one attempt more than configured
retryOperationOneMore(u, n) ==
  IF n > u.RETRY_ATTEMPTS + 1
  THEN [u EXCEPT !.state = "returned", !.result = "false",
                 !.thrown = IF u.lastError = NoError THEN GenericError
                            ELSE u.lastError]
  ELSE [u EXCEPT !.state = "attempt", !.attempt = n,
                 !.puts = Append(@, u.newIp)]

\* the loop of retryOperation from attempt n on: the operation is invoked,
\* or the loop is over and lastError is thrown, which updateDnsRecord
\* catches and turns into false
retryOperation(u, n) ==
  IF n > u.RETRY_ATTEMPTS
  THEN [u EXCEPT !.state = "returned", !.result = "false",
                 !.thrown = IF u.lastError = NoError THEN GenericError
                            ELSE u.lastError]
  ELSE [u EXCEPT !.state = "attempt", !.attempt = n,
                 !.puts = Append(@, u.newIp)]

\* the wait doubles with every attempt
retryWaitGrowing(u, failure) ==
  IF failure.status = 429 /\ failure.retryAfter # <<>>
  THEN parseInt(failure.retryAfter) * 1000
  ELSE u.RETRY_DELAY * u.attempt

\* the catch block of retryOperation: how long to sleep
retryWait(u, failure) ==
  IF failure.status = 429
  THEN IF failure.retryAfter # <<>>
       THEN parseInt(failure.retryAfter) * 1000
       ELSE u.RETRY_DELAY
  ELSE u.RETRY_DELAY

\* every response counts as a success
IsSuccessAlways(body) == TRUE

\* `if (response.success)`
IsSuccess(body) == body.success = "true"

\* updateDnsRecord up to its first await
updateDnsRecord(u, newIp) ==
  LET called == [u EXCEPT !.newIp = newIp, !.attempt = 0, !.puts = <<>>,
                          !.outcomes = <<>>, !.waits = <<>>,
                          !.lastError = NoError, !.thrown = NoError,
                          !.result = "none"]
  IN IF u.idGuard /\ ~u.resolved
     THEN [called EXCEPT !.state = "returned", !.result = "false"]
     ELSE retryOperation(called, 1)

\* the attempt in progress has ended
operationSettled(u, outcome) ==
  LET logged == [u EXCEPT !.outcomes = Append(@, outcome)]
  IN IF outcome.kind = "data"
     THEN [logged EXCEPT !.state = "returned",
                         !.result = IF IsSuccess(outcome) THEN "true"
                                    ELSE "false"]
     ELSE [logged EXCEPT !.state = "waiting", !.lastError = outcome,
                         !.waits = Append(@, retryWait(u, outcome))]

\* --------------------------------------- CloudflareService: initialize
\* A name is the sequence of its labels: home.example.com is
\* <<"home", "example", "com">>; <<>> is the empty string of an unset field.
\* Identifiers are strings, "" for an unset one.
toLowerCase(name) ==
  [i \in 1..Len(name) |->
     CASE name[i] = "EXAMPLE" -> "example"
       [] name[i] = "Example" -> "example"
       [] name[i] = "COM" -> "com"
       [] OTHER -> name[i]]

Zone(id, name) == [id |-> id, name |-> name]
ZonePool ==
  {Zone("z1", <<"EXAMPLE", "COM">>), Zone("z2", <<"other", "org">>),
   Zone("z3", <<"example", "com">>), Zone("z4", <<"example", "net">>)}
ZoneIds == {"", "z0"}                    \* ZONE_ID of the configuration
RecordIds == {"", "r0"}                  \* RECORD_ID of the configuration
Domains == {<<>>, <<"example", "com">>, <<"Example", "com">>}
Subdomains == {<<>>, <<"home">>}
Fqdns == {<<>>, <<"home", "example", "com">>}

\* an A record: apex when its name is the zone's name, wildcard when its
\* name contains '*'
Record(id, name, apex, wildcard) ==
  [id |-> id, name |-> name, apex |-> apex, wildcard |-> wildcard]
RecordPool ==
  {Record("r1", <<"example", "com">>, TRUE, FALSE),
   Record("r2", <<"*", "example", "com">>, FALSE, TRUE),
   Record("r3", <<"www", "example", "com">>, FALSE, FALSE)}

\* the sequences of up to n distinct elements of S
Lists(S, n) ==
  {l \in UNION {[1..k -> S] : k \in 0..n} :
     \A i, j \in 1..Len(l) : i # j => l[i] # l[j]}

\* what a request of initialize ends with: a thrown error, a response that
\* does not report success, or a successful response with its result
Thrown == [kind |-> "error"]
Unsuccessful == [kind |-> "unsuccessful"]
Data(value) == [kind |-> "data", result |-> value]
NotAsked == [kind |-> "none"]

\* the service holding the given configuration; legacy: the class of
\* CloudflareService.ts, whose lookupZoneId and findSuitableRecord lack
\* the refusals of the later copy
InitService(cfg, legacy) ==
  [config   |-> cfg,
   given    |-> cfg,          \* the configuration before initialize()
   legacy   |-> legacy,
   state    |-> "idle",       \* idle, lookupZoneId, lookupFqdn,
                              \* lookupRecordId, detectIp, createRecord,
                              \* findSuitable, returned
   result   |-> "none",       \* what initialize() returned
   requests |-> <<>>,         \* the calls awaited so far
   zones    |-> NotAsked,     \* what each of them ended with
   lookup   |-> NotAsked,
   search   |-> NotAsked,
   detected |-> NotAsked,
   created  |-> NotAsked,
   listed   |-> NotAsked,
   posted   |-> NoIp,         \* content of the record-creation request
   zoneVia  |-> "none",       \* how ZONE_ID was adopted: single, match, first
   via      |-> "none",       \* how RECORD_ID was adopted: search, create,
                              \* list
   calls    |-> 0]            \* initialize() calls so far

Await(i, call) ==
  [i EXCEPT !.state = call, !.requests = Append(@, call)]
Return(i, res) == [i EXCEPT !.state = "returned", !.result = res]

\* the final validation
FinalValidation(i) ==
  IF i.config.RECORD_ID = "" \/ i.config.ZONE_ID = ""
  THEN Return(i, "false") ELSE Return(i, "true")

\* step 5, up to the listing request of findSuitableRecord
Step5(i) ==
  IF i.config.RECORD_ID # "" THEN FinalValidation(i)
  ELSE IF ~i.legacy /\ i.config.FQDN # <<>> THEN Return(i, "false")
  ELSE IF i.config.ZONE_ID = "" THEN Return(i, "false")
  ELSE Await(i, "findSuitable")

\* the name is searched for although RECORD_ID is known
Step4AlwaysSearches(i) ==
  IF i.config.FQDN # <<>>
  THEN IF i.config.ZONE_ID = ""
       THEN Await([i EXCEPT !.search = Unsuccessful], "detectIp")
       ELSE Await(i, "lookupRecordId")
  ELSE Step5(i)

\* step 4, up to the name search of lookupRecordId
Step4(i) ==
  IF i.config.RECORD_ID = "" /\ i.config.FQDN # <<>>
  THEN IF i.config.ZONE_ID = ""
       THEN Await([i EXCEPT !.search = Unsuccessful], "detectIp")
       ELSE Await(i, "lookupRecordId")
  ELSE Step5(i)

\* step 3, up to the request of lookupFqdnFromRecordId
Step3(i) ==
  IF i.config.FQDN = <<>> /\ i.config.RECORD_ID # ""
  THEN IF i.config.ZONE_ID = "" THEN Step4(i)
       ELSE Await(i, "lookupFqdn")
  ELSE Step4(i)

\* step 2
Step2(i) ==
  IF i.config.DOMAIN_NAME # <<>> /\ i.config.SUBDOMAIN # <<>>
     /\ i.config.FQDN = <<>>
  THEN Step3([i EXCEPT !.config.FQDN =
                         i.config.SUBDOMAIN \o i.config.DOMAIN_NAME])
  ELSE Step3(i)

\* initialize() up to its first await; the configuration it finds is the
\* one the call before it left
initialize(i) ==
  LET called == [InitService(i.config, i.legacy) EXCEPT
                   !.calls = i.calls + 1]
  IN IF called.config.ZONE_ID = "" THEN Await(called, "lookupZoneId")
     ELSE Step2(called)

\* the first element of seq that satisfies Test, given that one does
First(seq, Test(_)) ==
  seq[CHOOSE k \in 1..Len(seq) :
        Test(seq[k]) /\ \A j \in 1..(k - 1) : ~Test(seq[j])]
Some(seq, Test(_)) == \E k \in 1..Len(seq) : Test(seq[k])

NoZone == [id |-> "", via |-> "none"]

\* a single zone is refused when its name is not the configured domain
lookupZoneIdNeedsMatch(i, outcome) ==
  LET domain == i.config.DOMAIN_NAME
      Matches(zone) == toLowerCase(zone.name) = toLowerCase(domain)
  IN IF outcome.kind = "data" /\ Some(outcome.result, Matches)
     THEN [id |-> First(outcome.result, Matches).id, via |-> "match"]
     ELSE NoZone

\* lookupZoneId from the answer to its listing request
lookupZoneId(i, outcome) ==
  LET domain == i.config.DOMAIN_NAME
      Matches(zone) == IF i.legacy THEN zone.name = domain
                       ELSE toLowerCase(zone.name) = toLowerCase(domain)
  IN IF outcome.kind = "data" /\ Len(outcome.result) > 0
     THEN IF Len(outcome.result) = 1
          THEN [id |-> outcome.result[1].id, via |-> "single"]
          ELSE IF domain # <<>> /\ Some(outcome.result, Matches)
          THEN [id |-> First(outcome.result, Matches).id, via |-> "match"]
          ELSE IF ~i.legacy /\ domain # <<>> THEN NoZone
          ELSE [id |-> outcome.result[1].id, via |-> "first"]
     ELSE NoZone

\* step 1 from the answer to the zone listing
zonesSettled(i, outcome) ==
  LET zone == lookupZoneId(i, outcome)
      seen == [i EXCEPT !.zones = outcome]
  IN IF zone.id # ""
     THEN Step2([seen EXCEPT !.config.ZONE_ID = zone.id,
                             !.zoneVia = zone.via])
     ELSE Return(seen, "false")

\* step 3 from the answer to the record request
lookupSettled(i, outcome) ==
  LET seen == [i EXCEPT !.lookup = outcome]
  IN IF outcome.kind = "data"
     THEN Step4([seen EXCEPT
                   !.config.FQDN = outcome.result,
                   !.config.SUBDOMAIN =
                      IF Len(outcome.result) >= 2
                      THEN <<outcome.result[1]>> ELSE @,
                   !.config.DOMAIN_NAME =
                      IF Len(outcome.result) >= 2
                      THEN Tail(outcome.result) ELSE @])
     ELSE Step4(seen)

\* step 4 from the answer to the name search: lookupRecordId returns the
\* id of the first record found, and null in every other case
searchSettled(i, outcome) ==
  LET seen == [i EXCEPT !.search = outcome]
  IN IF outcome.kind = "data" /\ Len(outcome.result) > 0
     THEN Step5([seen EXCEPT !.config.RECORD_ID = outcome.result[1].id,
                             !.via = "search"])
     ELSE Await(seen, "detectIp")

\* the creation request is sent without a detected address
detectSettledPostsAnyway(i, outcome) ==
  LET seen == [i EXCEPT !.detected = outcome]
  IN IF outcome.kind = "data"
     THEN Await([seen EXCEPT !.posted = outcome.result], "createRecord")
     ELSE Await(seen, "createRecord")

\* createDnsRecord from the end of detectIp()
detectSettled(i, outcome) ==
  LET seen == [i EXCEPT !.detected = outcome]
  IN IF outcome.kind # "data" THEN Return(seen, "false")
     ELSE IF i.config.ZONE_ID = "" /\ ~i.legacy THEN Return(seen, "false")
     ELSE Await([seen EXCEPT !.posted = outcome.result], "createRecord")

\* a failed creation goes on to step 5
createSettledFallsThrough(i, outcome) ==
  LET seen == [i EXCEPT !.created = outcome]
  IN IF outcome.kind = "data" /\ outcome.result.id # ""
     THEN Step5([seen EXCEPT !.config.RECORD_ID = outcome.result.id,
                             !.via = "create"])
     ELSE Step5(seen)

\* step 4 from the answer to the creation request
createSettled(i, outcome) ==
  LET seen == [i EXCEPT !.created = outcome]
  IN IF outcome.kind = "data" /\ outcome.result.id # ""
     THEN Step5([seen EXCEPT !.config.RECORD_ID = outcome.result.id,
                             !.via = "create"])
     ELSE Return(seen, "false")

\* findSuitableRecord from the answer to its listing request
findSuitableRecord(outcome) ==
  LET Sub(record) == ~record.apex /\ ~record.wildcard
  IN IF outcome.kind = "data" /\ Len(outcome.result) > 0
     THEN IF Some(outcome.result, Sub) THEN First(outcome.result, Sub)
          ELSE outcome.result[1]
     ELSE Record("", <<>>, FALSE, FALSE)

\* a listing without a usable record still ends in the final validation
listSettledAdoptsNothing(i, outcome) ==
  LET seen == [i EXCEPT !.listed = outcome]
      record == findSuitableRecord(outcome)
  IN Return([seen EXCEPT !.config.RECORD_ID = record.id,
                         !.via = "list"], "true")

\* step 5 from the answer to the listing
listSettled(i, outcome) ==
  LET seen == [i EXCEPT !.listed = outcome]
      record == findSuitableRecord(outcome)
  IN IF record.id # ""
     THEN FinalValidation(
            [seen EXCEPT
               !.config.RECORD_ID = record.id,
               !.config.FQDN = record.name,
               !.config.SUBDOMAIN =
                  IF Len(record.name) >= 2 THEN <<record.name[1]>> ELSE @,
               !.config.DOMAIN_NAME =
                  IF Len(record.name) >= 2 THEN Tail(record.name) ELSE @,
               !.via = "list"])
     ELSE Return(seen, "false")

\* the configuration of DOMAIN=example.com and SUBDOMAIN=home
DefaultConfig ==
  [ZONE_ID |-> "", RECORD_ID |-> "", DOMAIN_NAME |-> <<"example", "com">>,
   SUBDOMAIN |-> <<"home">>, FQDN |-> <<"home", "example", "com">>]

\* ------------------------------------ CloudflareService: verifyCredentials
\* what a makeApiRequest of verifyCredentials ends with: an error thrown,
\* with the status of the response (0: no response), or the body returned,
\* with its success field
VerifyOutcomes ==
  {[kind |-> "error", status |-> st] : st \in {0, 401, 403, 500}}
  \cup {[kind |-> "body", success |-> f] : f \in {"true", "false", "absent"}}

VerifyService(version) ==
  [apiVersion |-> version,
   state      |-> "idle",     \* idle, tokenVerify, listZones, returned
   result     |-> "none",     \* what verifyCredentials() returned
   requests   |-> <<>>,       \* the endpoints requested so far
   first      |-> NotAsked,   \* how the token-verify request ended
   second     |-> NotAsked]   \* how the list-one-zone request ended

\* verifyCredentials() up to its first await
verifyCredentials(v) ==
  [v EXCEPT !.state = "tokenVerify",
            !.requests = <<<<"user", "tokens", "verify">>>>]

\* a failed token verification is final
tokenVerifySettledNoFallback(v, outcome) ==
  LET seen == [v EXCEPT !.first = outcome]
  IN IF outcome.kind = "body" /\ outcome.success = "true"
     THEN [seen EXCEPT !.state = "returned", !.result = "true"]
     ELSE [seen EXCEPT !.state = "returned", !.result = "false"]

\* from the end of the token-verify request to the return or the next await
tokenVerifySettled(v, outcome) ==
  LET seen == [v EXCEPT !.first = outcome]
  IN IF outcome.kind = "body" /\ outcome.success = "true"
     THEN [seen EXCEPT !.state = "returned", !.result = "true"]
     ELSE [seen EXCEPT !.state = "listZones",
                       !.requests = Append(@, <<"zones", "?per_page=1">>)]

\* from the end of the list-one-zone request to the return
zonesFallbackSettled(v, outcome) ==
  LET seen == [v EXCEPT !.second = outcome, !.state = "returned"]
  IN IF outcome.kind = "body" /\ outcome.success = "true"
     THEN [seen EXCEPT !.result = "true"]
     ELSE [seen EXCEPT !.result = "false"]

\* ------------------------------------------------------------ ConfigManager
\* Names are sequences of labels, as above; <<>> is the empty string,
\* Blank a string of whitespace, Undefined an unset variable or property.
Undefined == <<"undefined">>
Blank == <<" ">>
Or(a, b) == IF a = Undefined \/ a = <<>> THEN b ELSE a       \* a || b

\* constructFqdn(subdomain, domain)
constructFqdn(subdomain, domain) ==
  IF subdomain = Undefined \/ subdomain = <<>> \/ subdomain = Blank
  THEN Or(domain, <<>>)
  ELSE subdomain \o (IF Or(domain, <<>>) = <<>> THEN <<"">> ELSE domain)

EnvDomains == {Undefined, <<"example", "com">>}
EnvSubdomains == {Undefined, <<"home">>, Blank}
DirectDomains == {Undefined, <<>>, <<"other", "org">>}
DirectSubdomains == {Undefined, <<>>, <<"www">>}
DirectFqdns == {Undefined, <<"home", "example", "com">>}
Keys == {"DOMAIN_NAME", "SUBDOMAIN", "FQDN", "ZONE_ID"}
ValuesOf(key) ==
  CASE key = "DOMAIN_NAME" -> {<<>>, <<"other", "org">>}
    [] key = "SUBDOMAIN" -> {<<>>, <<"www">>}
    [] key = "FQDN" -> {<<"home", "example", "com">>}
    [] key = "ZONE_ID" -> {<<"z0">>}

\* this.config after the constructor, from the environment and directConfig
ConfigOf(env, direct) ==
  LET loaded == [DOMAIN_NAME |-> Or(env.DOMAIN_NAME, <<>>),
                 SUBDOMAIN |-> Or(env.SUBDOMAIN, <<>>),
                 FQDN |-> constructFqdn(env.SUBDOMAIN, env.DOMAIN_NAME),
                 ZONE_ID |-> <<>>]
      Over(key) == IF direct[key] # Undefined THEN direct[key]
                   ELSE loaded[key]
  IN [DOMAIN_NAME |-> Over("DOMAIN_NAME"),
      SUBDOMAIN |-> Over("SUBDOMAIN"),
      ZONE_ID |-> loaded.ZONE_ID,
      FQDN |-> IF direct.DOMAIN_NAME # Undefined
                  \/ direct.SUBDOMAIN # Undefined
               THEN constructFqdn(
                      Or(direct.SUBDOMAIN, Over("SUBDOMAIN")),
                      Or(direct.DOMAIN_NAME, Over("DOMAIN_NAME")))
               ELSE Over("FQDN")]

\* set(key, value)
set(c, key, value) ==
  LET assigned == [c EXCEPT ![key] = value]
  IN IF key = "DOMAIN_NAME" \/ key = "SUBDOMAIN"
     THEN [assigned EXCEPT
             !.FQDN = constructFqdn(assigned.SUBDOMAIN, assigned.DOMAIN_NAME)]
     ELSE assigned

\* a manager about to be constructed from env and directConfig
ConfigManager(env, direct) ==
  [env |-> env, direct |-> direct, state |-> "new",
   config |-> [DOMAIN_NAME |-> <<>>, SUBDOMAIN |-> <<>>, FQDN |-> <<>>,
               ZONE_ID |-> <<>>],
   sets |-> <<>>]             \* the keys set() was called with

NoOverrides ==
  [DOMAIN_NAME |-> Undefined, SUBDOMAIN |-> Undefined, FQDN |-> Undefined]
DefaultManager ==
  ConfigManager([DOMAIN_NAME |-> <<"example", "com">>,
                 SUBDOMAIN |-> <<"home">>], NoOverrides)

\* neither service is in use
ServicesIdle ==
  /\ det = IpDetectionService(<<>>)
  /\ candidate = <<>>
  /\ api = CloudflareService("v4")
  /\ upd = UpdateService(3, 5000, TRUE, TRUE)
  /\ ini = InitService(DefaultConfig, FALSE)
  /\ ver = VerifyService("v4")
  /\ cm = DefaultManager

\* ---------------------------------------------------------------- DynDnsApp
\* one call made by a cycle: its name, the address passed or returned, and
\* its outcome ("pending" while the cycle is suspended in it)
Call(op, ip, status) == [op |-> op, ip |-> ip, status |-> status]

Issue(log, op, ip) == Append(log, Call(op, ip, "pending"))

Done(log, ip, ok) ==
  [log EXCEPT ![Len(log)] = Call(@.op, ip, IF ok THEN "ok" ELSE "failed")]

calculateNextIntervalNoReset(adaptive, interval, stable, changed) ==
  IF ~adaptive THEN [stable |-> stable, interval |-> interval]
  ELSE LET n == stable + 1
           backoffAmount == Min(n * n * backoffFactor, maxInterval - minInterval)
       IN [stable |-> n, interval |-> Min(minInterval + backoffAmount, maxInterval)]

calculateNextIntervalNoCap(adaptive, interval, stable, changed) ==
  IF ~adaptive THEN [stable |-> stable, interval |-> interval]
  ELSE IF changed THEN [stable |-> 0, interval |-> minInterval]
  ELSE LET n == stable + 1
       IN [stable |-> n, interval |-> minInterval + n * n * backoffFactor]

\* the new value of consecutiveStableChecks and the interval returned
calculateNextInterval(adaptive, interval, stable, changed) ==
  IF ~adaptive THEN [stable |-> stable, interval |-> interval]
  ELSE IF changed THEN [stable |-> 0, interval |-> minInterval]
  ELSE LET n == stable + 1
           consecutiveSquared == n * n
           backoffAmount == Min(consecutiveSquared * backoffFactor,
                                maxInterval - minInterval)
           calculatedInterval == minInterval + backoffAmount
       IN [stable |-> n, interval |-> Min(calculatedInterval, maxInterval)]

\* ipChanged = !result
IpChangedOf(res) == ~res

IpUnchangedNever(detected, last) == FALSE

\* currentIp === lastIp
IpUnchanged(detected, last) == detected = last

ShouldSaveAlways(updateSuccess) == TRUE

\* if (updateSuccess) { saveIp(currentIp); return true; } return false;
ShouldSave(updateSuccess) == updateSuccess

CycleAbortsNever(ok) == FALSE

\* if (!serviceInitialized) return false;  if (!credentialsValid) return false;
CycleAborts(ok) == ~ok

SkipAfterVerifyForgotten(skip) == skip

\* process.env.SKIP_CREDENTIAL_CHECK = 'true' after a valid verification
SkipAfterVerify(skip) == TRUE

ExitCodeAlwaysZero(success) == 0

\* process.exit(success ? 0 : 1)
ExitCodeOf(success) == IF success THEN 0 ELSE 1

\* the loop condition of startMonitoring: while (this.isRunning) in one copy
\* of the class, while (true) in the other
LoopContinues(byFlag, running) == IF byFlag THEN running ELSE TRUE

\* process.exit(code), or the process running out of work
Exit(code, via) ==
  /\ pc' = "exited"
  /\ exitCode' = code
  /\ exitVia' = via

\* the statements after `await this.runOnce()`: in startMonitoring up to the
\* sleep, in main the process.exit
AfterRunOnce(res) ==
  IF continuous
    THEN LET next == calculateNextInterval(adaptiveInterval, checkInterval,
                         consecutiveStableChecks, IpChangedOf(res))
         IN /\ ipChanged' = IpChangedOf(res)
            /\ consecutiveStableChecks' = next.stable
            /\ nextInterval' = next.interval
            /\ pc' = "sleep"
            /\ UNCHANGED <<exitCode, exitVia>>
    ELSE /\ Exit(ExitCodeOf(res), "main")
         /\ UNCHANGED loopVars

ReturnsIgnoringShutdown(res) ==
  /\ isRunning' = FALSE
  /\ result' = res
  /\ AfterRunOnce(res)

\* `return res` in runOnce: the finally block, then the caller
Returns(res) ==
  /\ isRunning' = FALSE
  /\ result' = res
  /\ IF shutdownRequested
       THEN /\ Exit(0, "finally")
            /\ UNCHANGED loopVars
       ELSE AfterRunOnce(res)

\* only the first runOnce of the process calls initialize()
BeginCycleInitializesOnce ==
  /\ cycles < MaxCycles
  /\ cycles' = cycles + 1
  /\ prevLog' = cycleLog
  /\ prevResult' = result
  /\ IF devMode /\ StartsWithDevMock(config.API_TOKEN)
       THEN \E mockIp \in MockIps :
              LET w == saveIp(lastIpFile, mockIp, fileWritable)
              IN /\ lastIpFile' = w.file
                 /\ cycleLog' = Done(Issue(<<>>, "saveIp", mockIp), mockIp, w.ok)
                 /\ Returns(TRUE)
       ELSE IF needsSetup(config)
         THEN /\ cycleLog' = <<>>
              /\ Returns(FALSE)
              /\ UNCHANGED lastIpFile
         ELSE LET first == IF cycles = 0 THEN "initialize"
                           ELSE IF skipCredentialCheck THEN "detectIp"
                           ELSE "verifyCredentials"
              IN /\ cycleLog' = Issue(<<>>, first, NoIp)
                 /\ isRunning' = TRUE
                 /\ pc' = first
                 /\ UNCHANGED <<lastIpFile, result, exitCode, exitVia,
                                loopVars>>
  /\ UNCHANGED <<envVars, skipCredentialCheck, shutdownRequested, currentIp,
                 dnsRecord, signals>>

\* runOnce from its first statement to its first await (or to its return)
BeginCycle ==
  /\ cycles < MaxCycles
  /\ cycles' = cycles + 1
  /\ prevLog' = cycleLog
  /\ prevResult' = result
  /\ IF devMode /\ StartsWithDevMock(config.API_TOKEN)
       THEN \E mockIp \in MockIps :
              LET w == saveIp(lastIpFile, mockIp, fileWritable)
              IN /\ lastIpFile' = w.file
                 /\ cycleLog' = Done(Issue(<<>>, "saveIp", mockIp), mockIp, w.ok)
                 /\ Returns(TRUE)
       ELSE IF needsSetup(config)
         THEN /\ cycleLog' = <<>>
              /\ Returns(FALSE)
              /\ UNCHANGED lastIpFile
         ELSE /\ cycleLog' = Issue(<<>>, "initialize", NoIp)
              /\ isRunning' = TRUE
              /\ pc' = "initialize"
              /\ UNCHANGED <<lastIpFile, result, exitCode, exitVia, loopVars>>
  /\ UNCHANGED <<envVars, skipCredentialCheck, shutdownRequested, currentIp,
                 dnsRecord, signals>>

\* main / runDynDns / startMonitoring up to the first runOnce
Start ==
  /\ pc = "main"
  /\ IF needsSetup(config)
       THEN \* runDynDns returns false; only a one-shot run calls process.exit
            /\ Exit(IF continuous THEN 0 ELSE ExitCodeOf(FALSE), "main")
            /\ UNCHANGED <<isRunning, result, lastIpFile, loopVars, histVars,
                           envVars, skipCredentialCheck, shutdownRequested,
                           currentIp, dnsRecord, signals>>
       ELSE BeginCycle

\* await cloudflareService.initialize() resumes
InitializeDone ==
  /\ pc = "initialize"
  /\ \E ok \in BOOLEAN :
       LET log == Done(cycleLog, NoIp, ok)
       IN IF CycleAborts(ok)
            THEN /\ cycleLog' = log
                 /\ Returns(FALSE)
            ELSE /\ cycleLog' = Issue(log, IF skipCredentialCheck THEN "detectIp"
                                           ELSE "verifyCredentials", NoIp)
                 /\ pc' = IF skipCredentialCheck THEN "detectIp"
                          ELSE "verifyCredentials"
                 /\ UNCHANGED <<isRunning, result, exitCode, exitVia, loopVars>>
  /\ UNCHANGED <<envVars, skipCredentialCheck, shutdownRequested, currentIp,
                 lastIpFile, dnsRecord, prevLog, prevResult, cycles, signals>>

\* await cloudflareService.verifyCredentials() resumes
VerifyCredentialsDone ==
  /\ pc = "verifyCredentials"
  /\ \E ok \in BOOLEAN :
       LET log == Done(cycleLog, NoIp, ok)
       IN IF CycleAborts(ok)
            THEN /\ cycleLog' = log
                 /\ Returns(FALSE)
                 /\ UNCHANGED skipCredentialCheck
            ELSE /\ skipCredentialCheck' = SkipAfterVerify(skipCredentialCheck)
                 /\ cycleLog' = Issue(log, "detectIp", NoIp)
                 /\ pc' = "detectIp"
                 /\ UNCHANGED <<isRunning, result, exitCode, exitVia, loopVars>>
  /\ UNCHANGED <<envVars, shutdownRequested, currentIp, lastIpFile, dnsRecord,
                 prevLog, prevResult, cycles, signals>>

\* await ipDetectionService.detectIp() resumes: it threw, or returned an address
DetectIpDone ==
  /\ pc = "detectIp"
  /\ \/ /\ cycleLog' = Done(cycleLog, NoIp, FALSE)
        /\ Returns(FALSE)
        /\ UNCHANGED currentIp
     \/ \E ip \in PublicIps :
          LET lastIp == getLastIp(lastIpFile, fileReadable)
              log == Done(Issue(Done(cycleLog, ip, TRUE), "getLastIp", lastIp),
                          lastIp, TRUE)
          IN /\ currentIp' = ip
             /\ IF IpUnchanged(ip, lastIp)
                  THEN /\ cycleLog' = log
                       /\ Returns(TRUE)
                  ELSE /\ cycleLog' = Issue(log, "updateDnsRecord", ip)
                       /\ pc' = "updateDnsRecord"
                       /\ UNCHANGED <<isRunning, result, exitCode, exitVia,
                                      loopVars>>
  /\ UNCHANGED <<envVars, skipCredentialCheck, shutdownRequested, lastIpFile,
                 dnsRecord, prevLog, prevResult, cycles, signals>>

\* await cloudflareService.updateDnsRecord(currentIp) resumes
UpdateDnsRecordDone ==
  /\ pc = "updateDnsRecord"
  /\ \E updateSuccess \in BOOLEAN :
       LET log == Done(cycleLog, currentIp, updateSuccess)
           w == saveIp(lastIpFile, currentIp, fileWritable)
       IN /\ dnsRecord' = IF updateSuccess THEN currentIp ELSE dnsRecord
          /\ IF ShouldSave(updateSuccess)
               THEN /\ lastIpFile' = w.file
                    /\ cycleLog' = Done(Issue(log, "saveIp", currentIp),
                                        currentIp, w.ok)
                    /\ Returns(TRUE)
               ELSE /\ cycleLog' = log
                    /\ Returns(FALSE)
                    /\ UNCHANGED lastIpFile
  /\ UNCHANGED <<envVars, skipCredentialCheck, shutdownRequested, currentIp,
                 prevLog, prevResult, cycles, signals>>

SleepElapsedOnTimer ==
  /\ pc \in AwaitPoints
  /\ BeginCycle

\* the setTimeout of startMonitoring fires: the loop condition, then runOnce
SleepElapsed ==
  /\ pc = "sleep"
  /\ IF LoopContinues(loopByFlag, isRunning)
       THEN BeginCycle
       ELSE \* startMonitoring returns and the process runs out of work
            /\ Exit(0, "loopEnd")
            /\ UNCHANGED <<isRunning, result, lastIpFile, loopVars, histVars,
                           envVars, skipCredentialCheck, shutdownRequested,
                           currentIp, dnsRecord, signals>>

handleShutdownWaitsWhenIdle(requested, running) ==
  [requested |-> TRUE, exit |-> requested]

\* what handleShutdown leaves in shutdownRequested, and whether it exits
handleShutdown(requested, running) ==
  IF requested THEN [requested |-> TRUE, exit |-> TRUE]
  ELSE [requested |-> TRUE, exit |-> ~running]

\* SIGINT or SIGTERM is delivered while the process waits at an await
Signal ==
  /\ pc \in AwaitPoints
  /\ signals < MaxSignals
  /\ signals' = signals + 1
  /\ LET h == handleShutdown(shutdownRequested, isRunning)
     IN /\ shutdownRequested' = h.requested
        /\ IF h.exit
             THEN Exit(0, IF shutdownRequested THEN "forced" ELSE "idle")
             ELSE UNCHANGED <<pc, exitCode, exitVia>>
  /\ UNCHANGED <<envVars, skipCredentialCheck, isRunning, result, currentIp,
                 lastIpFile, dnsRecord, loopVars, histVars>>

Init ==
  /\ continuous \in BOOLEAN
  /\ loopByFlag \in BOOLEAN
  /\ adaptiveInterval \in BOOLEAN
  /\ checkInterval \in CheckIntervals
  /\ devMode \in BOOLEAN
  /\ config \in [API_TOKEN : TokenValues, DOMAIN_NAME : DomainValues,
                 SUBDOMAIN : SubdomainValues]
  /\ skipCredentialCheck \in BOOLEAN
  /\ fileReadable \in BOOLEAN
  /\ fileWritable \in BOOLEAN
  /\ isRunning = FALSE
  /\ shutdownRequested = FALSE
  /\ consecutiveStableChecks = 0
  /\ nextInterval = checkInterval
  /\ ipChanged = FALSE
  /\ currentIp = NoIp
  /\ pc = "main"
  /\ result = FALSE
  /\ exitCode = -1
  /\ exitVia = "none"
  /\ lastIpFile \in {NoFile} \cup FileContents
  /\ dnsRecord = NoIp
  /\ cycleLog = <<>>
  /\ prevLog = <<>>
  /\ prevResult = FALSE
  /\ cycles = 0
  /\ signals = 0
  /\ ServicesIdle

Next ==
  \/ Start
  \/ InitializeDone
  \/ VerifyCredentialsDone
  \/ DetectIpDone
  \/ UpdateDnsRecordDone
  \/ SleepElapsed
  \/ Signal

Spec == Init /\ [][Next]_vars

\* -------------------------------------------------------------- SpecRunOnce
\* A program that uses the class directly, as the integration test does:
\* it constructs the app and calls runOnce() without the needsSetup() check
\* of runDynDns.  Here pc = "exited" with exitVia = "main" is the return of
\* runOnce to that caller.
InitRunOnce == Init /\ ~continuous

CallRunOnce ==
  /\ pc = "main"
  /\ BeginCycle

NextRunOnce ==
  \/ CallRunOnce
  \/ InitializeDone
  \/ VerifyCredentialsDone
  \/ DetectIpDone
  \/ UpdateDnsRecordDone
  \/ Signal

SpecRunOnce == InitRunOnce /\ [][NextRunOnce]_vars

\* ------------------------------------------------------------------ SpecLive
\* A continuous run during which the public address is NewIp, different
\* from the address last stored, and the services may fail until the
\* second cycle begins and succeed from then on. No signal is delivered;
\* the event loop resumes every await and fires every timer.
NewIp == "203.0.113.5"

Environment ==
  /\ \A k \in DOMAIN cycleLog :
       (cycleLog[k].op = "detectIp" /\ cycleLog[k].status = "ok")
         => cycleLog[k].ip = NewIp
  /\ cycles >= 2 =>
       \A k \in DOMAIN cycleLog :
         cycleLog[k].op \in {"initialize", "verifyCredentials", "detectIp",
                             "updateDnsRecord"}
           => cycleLog[k].status # "failed"

InitLive ==
  /\ Init
  /\ continuous
  /\ ~devMode
  /\ ~needsSetup(config)
  /\ lastIpFile.text # NewIp

NextLive ==
  \/ Start /\ Environment'
  \/ InitializeDone /\ Environment'
  \/ VerifyCredentialsDone /\ Environment'
  \/ DetectIpDone /\ Environment'
  \/ UpdateDnsRecordDone /\ Environment'
  \/ SleepElapsed /\ Environment'

SpecLive == InitLive /\ [][NextLive]_vars /\ WF_vars(NextLive)

\* ------------------------------------------------------------ SpecInterval
\* The interval computation of the monitoring loop on its own: the two
\* statements after `await this.runOnce()`, driven by arbitrary cycle results.
InitInterval ==
  /\ continuous = TRUE
  /\ loopByFlag = FALSE
  /\ adaptiveInterval \in BOOLEAN
  /\ checkInterval \in CheckIntervals
  /\ devMode = FALSE
  /\ config = [API_TOKEN |-> "token", DOMAIN_NAME |-> "example.com",
               SUBDOMAIN |-> "home"]
  /\ skipCredentialCheck = FALSE
  /\ fileReadable = TRUE
  /\ fileWritable = TRUE
  /\ isRunning = FALSE
  /\ shutdownRequested = FALSE
  /\ consecutiveStableChecks = 0
  /\ nextInterval = checkInterval
  /\ ipChanged = FALSE
  /\ currentIp = NoIp
  /\ pc = "sleep"
  /\ result = FALSE
  /\ exitCode = -1
  /\ exitVia = "none"
  /\ lastIpFile = NoFile
  /\ dnsRecord = NoIp
  /\ cycleLog = <<>>
  /\ prevLog = <<>>
  /\ prevResult = FALSE
  /\ cycles = 0
  /\ signals = 0
  /\ ServicesIdle

CycleResult ==
  /\ cycles < MaxCalls
  /\ cycles' = cycles + 1
  /\ \E res \in BOOLEAN :
       /\ result' = res
       /\ AfterRunOnce(res)
  /\ UNCHANGED <<envVars, skipCredentialCheck, isRunning, shutdownRequested,
                 currentIp, lastIpFile, dnsRecord, cycleLog, prevLog,
                 prevResult, signals>>

SpecInterval == InitInterval /\ [][CycleResult]_vars

\* -------------------------------------------------------------- SpecDetect
\* The services on their own, constructed by a program that never starts the
\* poll controller (as the unit tests construct them).
AppIdle ==
  /\ continuous = FALSE
  /\ loopByFlag = FALSE
  /\ adaptiveInterval = FALSE
  /\ checkInterval = DefaultCheckInterval
  /\ devMode = FALSE
  /\ config = [API_TOKEN |-> "token", DOMAIN_NAME |-> "example.com",
               SUBDOMAIN |-> "home"]
  /\ skipCredentialCheck = FALSE
  /\ fileReadable = TRUE
  /\ fileWritable = TRUE
  /\ isRunning = FALSE
  /\ shutdownRequested = FALSE
  /\ consecutiveStableChecks = 0
  /\ nextInterval = checkInterval
  /\ ipChanged = FALSE
  /\ currentIp = NoIp
  /\ pc = "main"
  /\ result = FALSE
  /\ exitCode = -1
  /\ exitVia = "none"
  /\ lastIpFile = NoFile
  /\ dnsRecord = NoIp
  /\ cycleLog = <<>>
  /\ prevLog = <<>>
  /\ prevResult = FALSE
  /\ cycles = 0
  /\ signals = 0

\* one detectIp() call of a service configured with up to MaxProviders names
Address == <<"2", "0", "3", ".", "0", ".", "1", "1", "3", ".", "5">>
Answers ==
  {[kind |-> "error", text |-> <<>>],
   [kind |-> "string", text |-> <<>>],
   [kind |-> "string", text |-> <<" ">> \o Address \o <<"\n">>],
   [kind |-> "string", text |-> <<"<", "h", "1", ">">>],
   [kind |-> "object", text |-> Address],
   [kind |-> "object", text |-> <<" ">> \o Address],
   [kind |-> "object", text |-> <<>>]}

InitDetect ==
  /\ AppIdle
  /\ det \in {IpDetectionService(c) :
                c \in UNION {[1..n -> ConfiguredNames] : n \in 0..MaxProviders}}
  /\ candidate = <<>>
  /\ api = CloudflareService("v4")
  /\ upd = UpdateService(3, 5000, TRUE, TRUE)
  /\ ini = InitService(DefaultConfig, FALSE)
  /\ ver = VerifyService("v4")
  /\ cm = DefaultManager

\* detectIp() up to its first await: the shuffle is some permutation
DetectIpCalled ==
  /\ det.state = "idle"
  /\ \E p \in Permutations(1..Len(det.ipServices)) :
       det' = detectIpLoop(
                [det EXCEPT !.shuffled = [i \in 1..Len(det.ipServices) |->
                                            det.ipServices[p[i]]]], 1)
  /\ UNCHANGED <<appVars, candidate, api, upd, ini, ver, cm>>

ProviderAnswered ==
  /\ det.state = "awaiting"
  /\ \E data \in Answers : det' = detectIpStep(det, data)
  /\ UNCHANGED <<appVars, candidate, api, upd, ini, ver, cm>>

NextDetect ==
  \/ DetectIpCalled
  \/ ProviderAnswered

SpecDetect == InitDetect /\ [][NextDetect]_vars

\* ------------------------------------------------------------------ SpecIpv4
\* isValidIpv4 on the texts a provider can send: detectIp() of a service
\* configured with ipify alone, whose answer is made of up to MaxGroups
\* groups joined by dots, as a plain text or as the ip field of an object.
Groups ==
  {<<"0">>, <<"2", "5", "5">>, <<"2", "5", "6">>, <<"0", "0", "7">>,
   <<"1", "2", "3", "4">>, <<>>, <<"a", "1">>, <<" ", "1">>, <<"1", "\n">>}
Examples ==
  {<< <<"1">>, <<"2">>, <<"3">>, <<"2", "5", "6">> >>,
   << <<"1">>, <<"2">>, <<"3">> >>,
   << <<"1">>, <<"2">>, <<"3">>, <<"4">>, <<"5">> >>,
   << <<"a", "b", "c">>, <<"2">>, <<"3">>, <<"4">> >>,
   << <<"1">>, <<"2">>, <<"3">>, <<"4">> >>}

\* the groups joined by dots
RECURSIVE Text(_)
Text(groups) ==
  IF Len(groups) = 0 THEN <<>>
  ELSE IF Len(groups) = 1 THEN groups[1]
  ELSE groups[1] \o <<".">> \o Text(Tail(groups))

InitIpv4 ==
  /\ AppIdle
  /\ candidate \in Examples \cup UNION {[1..n -> Groups] : n \in 1..MaxGroups}
  /\ det = detectIpLoop([IpDetectionService(<<"ipify">>)
                           EXCEPT !.shuffled = <<"ipify">>], 1)
  /\ api = CloudflareService("v4")
  /\ upd = UpdateService(3, 5000, TRUE, TRUE)
  /\ ini = InitService(DefaultConfig, FALSE)
  /\ ver = VerifyService("v4")
  /\ cm = DefaultManager

ProviderSends ==
  /\ det.state = "awaiting"
  /\ \E kind \in {"string", "object"} :
       det' = detectIpStep(det, [kind |-> kind, text |-> Text(candidate)])
  /\ UNCHANGED <<appVars, candidate, api, upd, ini, ver, cm>>

SpecIpv4 == InitIpv4 /\ [][ProviderSends]_vars

\* ------------------------------------------------------------------- SpecApi
\* up to MaxRequests makeApiRequest() calls of one CloudflareService
InitApi ==
  /\ AppIdle
  /\ det = IpDetectionService(<<>>)
  /\ candidate = <<>>
  /\ api \in {CloudflareService(v) : v \in ApiVersions}
  /\ upd = UpdateService(3, 5000, TRUE, TRUE)
  /\ ini = InitService(DefaultConfig, FALSE)
  /\ ver = VerifyService("v4")
  /\ cm = DefaultManager

MakeApiRequest ==
  /\ api.state \in {"idle", "returned", "threw", "probed"}
  /\ api.calls < MaxRequests
  /\ \E e \in Endpoints :
       api' = [api EXCEPT !.endpoint = e, !.state = "primary", !.pos = 0,
                          !.requests = <<Request(api.apiVersion, e)>>,
                          !.statuses = <<>>, !.response = 0,
                          !.error = -1, !.probeOk = <<>>, !.calls = @ + 1]
  /\ UNCHANGED <<appVars, det, candidate, upd, ini, ver, cm>>

\* initialize() with AUTO_DETECT_API set, up to the first probe
DetectApiVersion ==
  /\ api.state \in {"idle", "returned", "threw", "probed"}
  /\ api.calls < MaxRequests
  /\ api' = detectApiVersion(
               [api EXCEPT !.endpoint = <<"zones">>, !.requests = <<>>,
                           !.statuses = <<>>, !.response = 0, !.error = -1,
                           !.probeOk = <<>>, !.calls = @ + 1], 1)
  /\ UNCHANGED <<appVars, det, candidate, upd, ini, ver, cm>>

\* a probe is answered; only an answer with a body carries a success flag
ProbeAnswered ==
  /\ api.state = "probing"
  /\ \E status \in Statuses :
       \E success \in (IF status = 200 THEN BOOLEAN ELSE {FALSE}) :
         api' = detectApiVersionAnswered(api, status, success)
  /\ UNCHANGED <<appVars, det, candidate, upd, ini, ver, cm>>

PrimaryAnswered ==
  /\ api.state = "primary"
  /\ \E status \in Statuses : api' = makeApiRequestAnswered(api, status)
  /\ UNCHANGED <<appVars, det, candidate, upd, ini, ver, cm>>

AlternativeAnswered ==
  /\ api.state = "alternative"
  /\ \E status \in Statuses : api' = handleApiChangeAnswered(api, status)
  /\ UNCHANGED <<appVars, det, candidate, upd, ini, ver, cm>>

NextApi ==
  \/ MakeApiRequest
  \/ PrimaryAnswered
  \/ AlternativeAnswered
  \/ DetectApiVersion
  \/ ProbeAnswered

SpecApi == InitApi /\ [][NextApi]_vars

\* ---------------------------------------------------------------- SpecUpdate
\* one updateDnsRecord() call of a CloudflareService whose configuration
\* asks for up to MaxAttempts attempts
InitUpdate ==
  /\ AppIdle
  /\ det = IpDetectionService(<<>>)
  /\ candidate = <<>>
  /\ api = CloudflareService("v4")
  /\ upd \in {UpdateService(n, delay, resolved, idGuard) :
                n \in 0..MaxAttempts, delay \in RetryDelays,
                resolved \in BOOLEAN, idGuard \in BOOLEAN}
  /\ ini = InitService(DefaultConfig, FALSE)
  /\ ver = VerifyService("v4")
  /\ cm = DefaultManager

UpdateCalled ==
  /\ upd.state = "idle"
  /\ \E newIp \in PublicIps : upd' = updateDnsRecord(upd, newIp)
  /\ UNCHANGED <<appVars, det, candidate, api, ini, ver, cm>>

OperationSettled ==
  /\ upd.state = "attempt"
  /\ \E outcome \in Outcomes : upd' = operationSettled(upd, outcome)
  /\ UNCHANGED <<appVars, det, candidate, api, ini, ver, cm>>

\* the sleep after a failed attempt is over
RetryWaitElapsed ==
  /\ upd.state = "waiting"
  /\ upd' = retryOperation(upd, upd.attempt + 1)
  /\ UNCHANGED <<appVars, det, candidate, api, ini, ver, cm>>

NextUpdate ==
  \/ UpdateCalled
  \/ OperationSettled
  \/ RetryWaitElapsed

SpecUpdate == InitUpdate /\ [][NextUpdate]_vars

\* ------------------------------------------------------------------ SpecInit
\* one initialize() call of a CloudflareService, AUTO_DETECT_API unset
Configs ==
  [ZONE_ID : ZoneIds, RECORD_ID : RecordIds, DOMAIN_NAME : Domains,
   SUBDOMAIN : Subdomains, FQDN : Fqdns]

InitInit ==
  /\ AppIdle
  /\ det = IpDetectionService(<<>>)
  /\ candidate = <<>>
  /\ api = CloudflareService("v4")
  /\ upd = UpdateService(3, 5000, TRUE, TRUE)
  /\ ini \in {InitService(cfg, legacy) :
                cfg \in Configs, legacy \in BOOLEAN}
  /\ ver = VerifyService("v4")
  /\ cm = DefaultManager

InitializeCalled ==
  /\ ini.state \in {"idle", "returned"}
  /\ ini.calls < MaxInits
  /\ ini' = initialize(ini)
  /\ UNCHANGED <<appVars, det, candidate, api, upd, ver, cm>>

ZonesSettled ==
  /\ ini.state = "lookupZoneId"
  /\ \E outcome \in {Thrown, Unsuccessful}
                     \cup {Data(l) : l \in Lists(ZonePool, MaxZones)} :
       ini' = zonesSettled(ini, outcome)
  /\ UNCHANGED <<appVars, det, candidate, api, upd, ver, cm>>

LookupSettled ==
  /\ ini.state = "lookupFqdn"
  /\ \E outcome \in {Thrown, Unsuccessful,
                      Data(<<"home", "example", "com">>),
                      Data(<<"www", "other", "org">>)} :
       ini' = lookupSettled(ini, outcome)
  /\ UNCHANGED <<appVars, det, candidate, api, upd, ver, cm>>

\* the records the name search returns carry the name searched for
SearchSettled ==
  /\ ini.state = "lookupRecordId"
  /\ \E outcome \in
       {Thrown, Unsuccessful, Data(<<>>),
        Data(<<Record("r5", ini.config.FQDN, FALSE, FALSE)>>),
        Data(<<Record("r6", ini.config.FQDN, FALSE, FALSE),
               Record("r5", ini.config.FQDN, FALSE, FALSE)>>)} :
       ini' = searchSettled(ini, outcome)
  /\ UNCHANGED <<appVars, det, candidate, api, upd, ver, cm>>

DetectSettled ==
  /\ ini.state = "detectIp"
  /\ \E outcome \in {Thrown} \cup {Data(ip) : ip \in PublicIps} :
       ini' = detectSettled(ini, outcome)
  /\ UNCHANGED <<appVars, det, candidate, api, upd, ver, cm>>

\* the record created carries the content that was sent
CreateSettled ==
  /\ ini.state = "createRecord"
  /\ \E outcome \in {Thrown, Unsuccessful,
                      Data([id |-> "r9", content |-> ini.posted])} :
       ini' = createSettled(ini, outcome)
  /\ UNCHANGED <<appVars, det, candidate, api, upd, ver, cm>>

ListSettled ==
  /\ ini.state = "findSuitable"
  /\ \E outcome \in {Thrown, Unsuccessful}
                     \cup {Data(l) : l \in Lists(RecordPool, 2)} :
       ini' = listSettled(ini, outcome)
  /\ UNCHANGED <<appVars, det, candidate, api, upd, ver, cm>>

NextInit ==
  \/ InitializeCalled
  \/ ZonesSettled
  \/ LookupSettled
  \/ SearchSettled
  \/ DetectSettled
  \/ CreateSettled
  \/ ListSettled

SpecInit == InitInit /\ [][NextInit]_vars

\* ---------------------------------------------------------------- SpecVerify
\* one verifyCredentials() call of a CloudflareService
InitVerify ==
  /\ AppIdle
  /\ det = IpDetectionService(<<>>)
  /\ candidate = <<>>
  /\ api = CloudflareService("v4")
  /\ upd = UpdateService(3, 5000, TRUE, TRUE)
  /\ ini = InitService(DefaultConfig, FALSE)
  /\ cm = DefaultManager
  /\ ver \in {VerifyService(version) : version \in ApiVersions}

VerifyCalled ==
  /\ ver.state = "idle"
  /\ ver' = verifyCredentials(ver)
  /\ UNCHANGED <<appVars, det, candidate, api, upd, ini, cm>>

TokenVerifySettled ==
  /\ ver.state = "tokenVerify"
  /\ \E outcome \in VerifyOutcomes : ver' = tokenVerifySettled(ver, outcome)
  /\ UNCHANGED <<appVars, det, candidate, api, upd, ini, cm>>

ZonesFallbackSettled ==
  /\ ver.state = "listZones"
  /\ \E outcome \in VerifyOutcomes : ver' = zonesFallbackSettled(ver, outcome)
  /\ UNCHANGED <<appVars, det, candidate, api, upd, ini, cm>>

NextVerify ==
  \/ VerifyCalled
  \/ TokenVerifySettled
  \/ ZonesFallbackSettled

SpecVerify == InitVerify /\ [][NextVerify]_vars

\* ---------------------------------------------------------------- SpecConfig
\* a ConfigManager: its construction, then calls of set()
InitConfig ==
  /\ AppIdle
  /\ det = IpDetectionService(<<>>)
  /\ candidate = <<>>
  /\ api = CloudflareService("v4")
  /\ upd = UpdateService(3, 5000, TRUE, TRUE)
  /\ ini = InitService(DefaultConfig, FALSE)
  /\ ver = VerifyService("v4")
  /\ cm \in {ConfigManager(env, direct) :
               env \in [DOMAIN_NAME : EnvDomains, SUBDOMAIN : EnvSubdomains],
               direct \in [DOMAIN_NAME : DirectDomains,
                           SUBDOMAIN : DirectSubdomains,
                           FQDN : DirectFqdns]}

Construct ==
  /\ cm.state = "new"
  /\ cm' = [cm EXCEPT !.state = "ready",
                      !.config = ConfigOf(cm.env, cm.direct)]
  /\ UNCHANGED <<appVars, det, candidate, api, upd, ini, ver>>

Set ==
  /\ cm.state = "ready"
  /\ Len(cm.sets) < MaxSets
  /\ \E key \in Keys : \E value \in ValuesOf(key) :
       cm' = [cm EXCEPT !.config = set(cm.config, key, value),
                        !.sets = Append(@, key)]
  /\ UNCHANGED <<appVars, det, candidate, api, upd, ini, ver>>

NextConfig ==
  \/ Construct
  \/ Set

SpecConfig == InitConfig /\ [][NextConfig]_vars

TypeOK ==
  /\ pc \in AwaitPoints \cup {"main", "exited"}
  /\ consecutiveStableChecks \in Nat
  /\ exitCode \in {-1, 0, 1}
  /\ lastIpFile.text \in Ips \cup {NoIp}
  /\ dnsRecord \in PublicIps \cup {NoIp}

\* ------------------------------------------------------- reading the logs
Calls(log, op) == {i \in DOMAIN log : log[i].op = op}

\* address the cycle's detectIp returned, NoIp when it returned none
Detected(log) ==
  IF \E i \in Calls(log, "detectIp") : log[i].status = "ok"
    THEN log[CHOOSE i \in Calls(log, "detectIp") : log[i].status = "ok"].ip
    ELSE NoIp

\* value the cycle's getLastIp returned (NoIp: null, or never read)
LastRead(log) ==
  IF Calls(log, "getLastIp") = {} THEN NoIp
  ELSE log[CHOOSE i \in Calls(log, "getLastIp") : TRUE].ip

HasRead(log) == Calls(log, "getLastIp") # {}

\* the cycle detected an address equal to the one it read
NoChange(log) == HasRead(log) /\ Detected(log) = LastRead(log)

\* the cycle detected an address different from the one it read
ChangeDetected(log) == HasRead(log) /\ Detected(log) # LastRead(log)

DevMock == devMode /\ StartsWithDevMock(config.API_TOKEN)

\* detectIp(x) -> getLastIp -> updateDnsRecord(x) -> saveIp(x) in one cycle:
\* every update follows a read that follows the detection of that address,
\* and every save follows a successful update of the address saved
InOrder(log) ==
  /\ \A r \in Calls(log, "getLastIp") :
       \E d \in Calls(log, "detectIp") : d < r /\ log[d].status = "ok"
  /\ \A u \in Calls(log, "updateDnsRecord") :
       \E d \in Calls(log, "detectIp"), r \in Calls(log, "getLastIp") :
         /\ d < r /\ r < u
         /\ log[d].status = "ok" /\ log[d].ip = log[u].ip
  /\ \A s \in Calls(log, "saveIp") :
       \E d \in Calls(log, "detectIp"), u \in Calls(log, "updateDnsRecord") :
         /\ d < u /\ u < s
         /\ log[u].status = "ok"
         /\ log[u].ip = log[s].ip /\ log[d].ip = log[s].ip

\* ------------------------------------------------------------------ claims

\* C1 (as stated): in every cycle the calls occur in the order detectIp ->
\* getLastIp -> updateDnsRecord -> saveIp, and saveIp(x) is called only after
\* updateDnsRecord(x) succeeded in that cycle for the detected x; no path
\* through runOnce writes the last IP without a successful update before it.
C1_SaveOnlyAfterUpdate == InOrder(cycleLog)

\* C1 (amended): the same, for every cycle other than the development-mode
\* cycle with mock credentials, which saves a mock address without detecting
\* or updating anything.
C1_SaveOnlyAfterUpdateOutsideDevMock == ~DevMock => InOrder(cycleLog)

C1_Witness ==
  /\ ~DevMock
  /\ \E s \in Calls(cycleLog, "saveIp") : cycleLog[s].status = "ok"
  /\ lastIpFile.text = Detected(cycleLog)

\* C2: in continuous mode, without a signal, the sleep after a cycle is
\* followed by another cycle (the loop does not terminate after a cycle).
C2_LoopNeverTerminates ==
  [][(continuous /\ pc = "sleep" /\ pc' # "sleep" /\ signals' = signals)
       => cycles' = cycles + 1]_vars

\* C3: with adaptive interval, after every cycle that detected an address
\* different from the stored one, whether or not the update succeeded, the
\* stable counter is 0 and the next sleep is minInterval.
C3_ChangeResetsCounter ==
  (continuous /\ adaptiveInterval /\ pc = "sleep" /\ ChangeDetected(cycleLog))
    => (consecutiveStableChecks = 0 /\ nextInterval = minInterval)

\* C4: with adaptive interval, after every cycle for which runOnce returned
\* false the stable counter is 0 and the next sleep is minInterval, 30000 ms.
C4_FailureResetsCounter ==
  (continuous /\ adaptiveInterval /\ pc = "sleep" /\ ~result)
    => (consecutiveStableChecks = 0 /\ nextInterval = 30000)

C4_Witness ==
  /\ continuous /\ adaptiveInterval /\ pc = "sleep"
  /\ ~result /\ prevResult /\ cycles = 2
  /\ consecutiveStableChecks = 0

\* C5: a cycle whose detected address equals the one getLastIp returned
\* returns true, calls neither updateDnsRecord nor saveIp, and leaves the DNS
\* record and the last-IP file as they were.
C5_NoChangeIsNoOp ==
  /\ [](NoChange(cycleLog) =>
          /\ result /\ ~isRunning
          /\ Calls(cycleLog, "updateDnsRecord") = {}
          /\ Calls(cycleLog, "saveIp") = {})
  /\ [][NoChange(cycleLog') => UNCHANGED <<lastIpFile, dnsRecord>>]_vars

C5_Witness ==
  /\ NoChange(cycleLog) /\ result
  /\ Detected(cycleLog) \in PublicIps
  /\ lastIpFile.text = Detected(cycleLog)

\* C6 (as stated): if a runOnce that detected x returned true, the runOnce
\* immediately after it, detecting x again, issues no updateDnsRecord call.
C6_SecondRunNoUpdate ==
  (cycles >= 2 /\ prevResult /\ Detected(prevLog) # NoIp
     /\ Detected(cycleLog) = Detected(prevLog))
    => Calls(cycleLog, "updateDnsRecord") = {}

\* C6 (amended): the same, provided the last-IP file can be read and the
\* first run's saveIp, if it was called, returned true.
C6_SecondRunNoUpdateWhenStored ==
  (cycles >= 2 /\ prevResult /\ Detected(prevLog) # NoIp
     /\ Detected(cycleLog) = Detected(prevLog)
     /\ fileReadable
     /\ \A s \in Calls(prevLog, "saveIp") : prevLog[s].status = "ok")
    => Calls(cycleLog, "updateDnsRecord") = {}

C6_Witness ==
  /\ cycles = 2 /\ prevResult /\ fileReadable
  /\ \E s \in Calls(prevLog, "saveIp") : prevLog[s].status = "ok"
  /\ Detected(prevLog) # NoIp
  /\ Detected(cycleLog) = Detected(prevLog)
  /\ result /\ ~isRunning

\* C7: a cycle whose updateDnsRecord(x) returned false returns false and
\* leaves the last-IP file unchanged; in continuous mode the next cycle that
\* detects the same x calls updateDnsRecord(x) again.
FailedUpdate(log) ==
  \E u \in Calls(log, "updateDnsRecord") : log[u].status = "failed"

C7_FailedUpdateIsRetried ==
  /\ [](FailedUpdate(cycleLog) => (~result /\ ~isRunning))
  /\ [][(FailedUpdate(cycleLog') /\ ~FailedUpdate(cycleLog))
         => lastIpFile' = lastIpFile]_vars
  /\ []((continuous /\ cycles >= 2 /\ FailedUpdate(prevLog)
          /\ Detected(cycleLog) = Detected(prevLog))
         => \E u \in Calls(cycleLog, "updateDnsRecord") :
              cycleLog[u].ip = Detected(prevLog))

C7_Witness ==
  /\ continuous /\ cycles = 2 /\ FailedUpdate(prevLog)
  /\ Detected(cycleLog) = Detected(prevLog)
  /\ \E u \in Calls(cycleLog, "updateDnsRecord") :
       cycleLog[u].ip = Detected(prevLog)

\* C9: a signal delivered while no cycle is in flight (isRunning false), and
\* any signal after the first one, ends the process in that very step.
C9_IdleOrSecondSignalExits ==
  [][(signals' = signals + 1 /\ (~isRunning \/ shutdownRequested))
       => (pc' = "exited" /\ exitCode' = 0)]_vars

C9_Witness == pc = "exited" /\ exitVia = "idle" /\ signals = 1 /\ cycles >= 1

\* C10: a first signal delivered while a cycle is in flight does not end the
\* process; the process ends when that cycle's runOnce completes, and after
\* the request no further cycle and no sleep begins.
C10_ShutdownWaitsForCycle ==
  /\ [][(signals' = signals + 1 /\ ~shutdownRequested /\ isRunning)
          => (pc' = pc /\ exitCode' = -1 /\ shutdownRequested')]_vars
  /\ [][(shutdownRequested /\ isRunning /\ ~isRunning')
          => (pc' = "exited" /\ exitVia' = "finally")]_vars
  /\ [][shutdownRequested => (cycles' = cycles /\ pc' # "sleep")]_vars

C10_Witness ==
  /\ pc = "exited" /\ exitVia = "finally" /\ signals = 1
  /\ shutdownRequested /\ ~isRunning

\* C8: with adaptive interval, the k-th consecutive no-change cycle yields
\* min(30000 + min(k*k*5000, 270000), 300000): 35000, 50000, 75000, 110000
\* for k = 1..4, 300000 for every k >= 8, always within [30000, 300000] and
\* never less than the interval of the no-change cycle before it.
C8_StableInterval ==
  LET k == consecutiveStableChecks
  IN (adaptiveInterval /\ cycles >= 1 /\ ~ipChanged) =>
       /\ k >= 1
       /\ nextInterval = Min(30000 + Min(k * k * 5000, 270000), 300000)
       /\ k = 1 => nextInterval = 35000
       /\ k = 2 => nextInterval = 50000
       /\ k = 3 => nextInterval = 75000
       /\ k = 4 => nextInterval = 110000
       /\ k >= 8 => nextInterval = 300000
       /\ nextInterval >= 30000 /\ nextInterval <= 300000

C8_AdaptiveIntervalSequence ==
  /\ []C8_StableInterval
  /\ [][(adaptiveInterval /\ cycles >= 1 /\ ~ipChanged /\ ~ipChanged'
          /\ cycles' = cycles + 1)
         => (consecutiveStableChecks' = consecutiveStableChecks + 1
             /\ nextInterval' >= nextInterval)]_vars

C8_Witness ==
  /\ adaptiveInterval /\ ~ipChanged
  /\ consecutiveStableChecks = 9 /\ nextInterval = 300000

\* C11 (as stated): after a signal was received during a cycle, that cycle
\* begins no new step: no call is issued once shutdownRequested is set.
C11_NoNewStepAfterSignal ==
  [][shutdownRequested => Len(cycleLog') <= Len(cycleLog)]_vars

\* C11 (amended): after a signal was received during a cycle, no step of a
\* later cycle is begun; the cycle in flight still begins its own remaining
\* steps, in the usual order, until its runOnce returns.
C11_NoLaterCycleAfterSignal ==
  /\ [][shutdownRequested =>
          /\ cycles' = cycles
          /\ prevLog' = prevLog
          /\ Len(cycleLog') > Len(cycleLog) => (isRunning /\ InOrder(cycleLog'))]_vars
  /\ []((shutdownRequested /\ pc # "exited") => isRunning)

C11_Witness ==
  /\ pc = "exited" /\ exitVia = "finally" /\ shutdownRequested
  /\ \E s \in Calls(cycleLog, "saveIp") : cycleLog[s].status = "ok"

\* the one-shot run ended with its cycle completed
CycleCompleted == ~continuous /\ pc = "exited" /\ exitVia \in {"main", "finally"}

\* C12 (as stated): a one-shot run exits with 0 exactly when its cycle
\* succeeded and with 1 when it failed, whatever signals arrived.
C12_ExitCodeIsResult == CycleCompleted => (exitCode = ExitCodeOf(result))

\* C12 (amended): the same for a one-shot run during which no signal arrives.
C12_ExitCodeIsResultWithoutSignal ==
  (CycleCompleted /\ signals = 0) =>
     /\ result => exitCode = 0
     /\ ~result => exitCode = 1

C12_Witness ==
  /\ CycleCompleted /\ signals = 0 /\ cycles = 1
  /\ FailedUpdate(cycleLog) /\ exitCode = 1

Verified(log) ==
  \E v \in Calls(log, "verifyCredentials") : log[v].status = "ok"

\* C13 (as stated): verifyCredentials is invoked at most once in a process,
\* whatever its first result.
C13_VerifyAtMostOnce ==
  ~(cycles >= 2 /\ Calls(prevLog, "verifyCredentials") # {}
      /\ Calls(cycleLog, "verifyCredentials") # {})

\* C13 (amended): after an invocation of verifyCredentials that returned
\* true, no later cycle invokes it again.
C13_VerifyNotRepeatedAfterSuccess ==
  /\ []((Verified(cycleLog) \/ Verified(prevLog)) => skipCredentialCheck)
  /\ [][skipCredentialCheck =>
          (skipCredentialCheck' /\ (pc' = "verifyCredentials" => pc = pc'))]_vars
  /\ []((cycles >= 2 /\ Verified(prevLog))
          => Calls(cycleLog, "verifyCredentials") = {})

C13_Witness ==
  /\ cycles = 2 /\ Verified(prevLog)
  /\ Calls(cycleLog, "detectIp") # {}
  /\ Calls(cycleLog, "verifyCredentials") = {}

\* what C14 says of a run whose required configuration is blank
BlankConfigRefused ==
  /\ []((needsSetup(config) /\ cycles >= 1) => (~result /\ cycleLog = <<>>))
  /\ [][needsSetup(config) => (lastIpFile' = lastIpFile /\ ~isRunning')]_vars
  /\ [](validate(config).throws <=> needsSetup(config))
  /\ []("API_TOKEN" \in validate(config).missing <=> IsBlank(config.API_TOKEN))
  /\ []("DOMAIN_NAME" \in validate(config).missing <=> IsBlank(config.DOMAIN_NAME))
  /\ []("SUBDOMAIN" \in validate(config).missing <=> IsBlank(config.SUBDOMAIN))

C15_FailedStepEndsCycle ==
  \A i \in DOMAIN cycleLog :
    (cycleLog[i].op \in {"initialize", "verifyCredentials", "detectIp"}
       /\ cycleLog[i].status = "failed")
    => /\ i = Len(cycleLog)
       /\ ~result /\ ~isRunning
       /\ Calls(cycleLog, "updateDnsRecord") = {}
       /\ Calls(cycleLog, "saveIp") = {}

C15_Witness ==
  /\ Len(cycleLog) = 2
  /\ cycleLog[2].op = "verifyCredentials" /\ cycleLog[2].status = "failed"
  /\ ~result /\ ~isRunning

Pending(log) == {i \in DOMAIN log : log[i].status = "pending"}

\* C16: at most one cycle is in flight: a cycle begins only from main or
\* from the elapsed sleep, when the previous runOnce has returned and none
\* of its calls is pending; at any time at most one call is pending.
C16_OneCycleAtATime ==
  /\ [][cycles' = cycles + 1 =>
          (pc \in {"main", "sleep"} /\ ~isRunning /\ Pending(cycleLog) = {})]_vars
  /\ [](Pending(cycleLog) \subseteq {Len(cycleLog)})
  /\ [](Pending(cycleLog) # {} => isRunning)

C16_Witness ==
  /\ cycles = 2 /\ isRunning /\ Pending(cycleLog) # {}
  /\ Pending(prevLog) = {} /\ prevLog # <<>>
\* ------------------------------------------- reading a detectIp() call
\* the services of the shuffled list that are in the catalog, in order
Known(order) ==
  LET InCatalog(x) == x \in Catalog IN SelectSeq(order, InCatalog)
IsPrefix(s, t) == Len(s) <= Len(t) /\ \A i \in 1..Len(s) : s[i] = t[i]
IsPermutation(s, t) ==
  /\ Len(s) = Len(t)
  /\ \A x \in ConfiguredNames \cup Catalog :
       Cardinality({i \in 1..Len(s) : s[i] = x})
         = Cardinality({i \in 1..Len(t) : t[i] = x})
\* the answer carries an address
Yields(data) == data.kind # "error" /\ isValidIpv4(parser(data))
ServicesOf(messages) == [i \in 1..Len(messages) |-> messages[i].service]

\* C17: detectIp() asks the recognised providers one at a time in the
\* shuffled order, each entry at most once; it returns the parsed address of
\* the first answer that is a valid IPv4 address and asks nobody after it;
\* an earlier provider's failure is recorded and the next one is asked.
C17_FirstValidProviderWins ==
  /\ [](det.state # "idle" =>
          /\ IsPermutation(det.shuffled, det.ipServices)
          /\ IsPrefix(det.requests, Known(det.shuffled))
          /\ Len(det.answers)
               = Len(det.requests) - (IF det.state = "awaiting" THEN 1 ELSE 0)
          /\ \A i \in 1..(Len(det.answers) - 1) : ~Yields(det.answers[i])
          /\ Len(det.errorMessages)
               = Len(det.answers) - (IF det.state = "returned" THEN 1 ELSE 0)
          /\ IsPrefix(ServicesOf(det.errorMessages), det.requests)
          /\ det.state = "returned" =>
               /\ Yields(det.answers[Len(det.answers)])
               /\ det.ip = parser(det.answers[Len(det.answers)])
          /\ det.state = "threw" =>
               /\ det.requests = Known(det.shuffled)
               /\ \A i \in 1..Len(det.answers) : ~Yields(det.answers[i]))
  /\ [][det.state \in {"returned", "threw"} => det' = det]_vars

\* the second provider asked answers with an address after the first failed
C17_Witness ==
  /\ det.state = "returned"
  /\ Len(det.requests) = 2
  /\ det.requests[1] # det.requests[2]
  /\ Len(det.errorMessages) = 1
  /\ "bogus" \in {det.ipServices[i] : i \in 1..Len(det.ipServices)}

Configured(name) == \E i \in 1..Len(det.ipServices) : det.ipServices[i] = name
Reasons == {"Failed to detect IP", "Invalid IP format"}

\* C18 as stated: when detectIp() throws, it has returned no address and the
\* error carries one failure reason for each configured provider.
C18_ReasonForEveryProvider ==
  det.state = "threw" =>
    /\ det.ip = <<>>
    /\ IsPermutation(ServicesOf(det.errorMessages), det.ipServices)

\* C18: detectIp() returns only if some answer carried an address; when it
\* throws it has returned no address and the error carries exactly one
\* failure reason for each configured provider of the catalog, in the order
\* they were asked, and none for a name the catalog does not know.
C18_ReasonForEveryRecognisedProvider ==
  /\ det.state = "returned" =>
       \E i \in 1..Len(det.answers) : Yields(det.answers[i])
  /\ det.state = "threw" =>
       /\ det.ip = <<>>
       /\ IsPermutation(det.shuffled, det.ipServices)
       /\ ServicesOf(det.errorMessages) = Known(det.shuffled)
       /\ \A i \in 1..Len(det.errorMessages) :
            det.errorMessages[i].reason \in Reasons

\* every provider failed, one of the three configured names is unknown
C18_Witness ==
  /\ det.state = "threw"
  /\ Len(det.ipServices) = 3
  /\ Configured("bogus")
  /\ Len(det.errorMessages) = 2
  /\ det.errorMessages[1].reason # det.errorMessages[2].reason

\* ------------------------------------------------ reading a provider's text
\* the groups in use that are one to three digits with a value of 0..255
GoodGroups ==
  {<<"0">>, <<"1">>, <<"2">>, <<"3">>, <<"4">>, <<"5">>, <<"0", "0", "7">>,
   <<"2", "5", "5">>}
WellFormed(groups) ==
  Len(groups) = 4 /\ \A i \in 1..4 : groups[i] \in GoodGroups
\* the groups of the text once whitespace around the text is removed
Stripped(groups) ==
  IF Len(groups) = 1 THEN <<trim(groups[1])>>
  ELSE [i \in 1..Len(groups) |->
          IF i = 1 \/ i = Len(groups) THEN trim(groups[i]) ELSE groups[i]]

\* C19: isValidIpv4 accepts a text exactly when it is four groups of one to
\* three ASCII digits, each of value 0..255, joined by dots and nothing
\* else; it rejects 1.2.3.256, 1.2.3, 1.2.3.4.5 and abc.2.3.4; and what
\* detectIp() returns is always such a text.
C19_Ipv4Exactly ==
  /\ isValidIpv4(Text(candidate)) <=> WellFormed(candidate)
  /\ ~isValidIpv4(<<"1", ".", "2", ".", "3", ".", "2", "5", "6">>)
  /\ ~isValidIpv4(<<"1", ".", "2", ".", "3">>)
  /\ ~isValidIpv4(<<"1", ".", "2", ".", "3", ".", "4", ".", "5">>)
  /\ ~isValidIpv4(<<"a", "b", "c", ".", "2", ".", "3", ".", "4">>)
  /\ det.state = "returned" =>
       \E groups \in {candidate, Stripped(candidate)} :
         det.ip = Text(groups) /\ WellFormed(groups)

\* a text with the largest group value and a group with leading zeros has
\* been sent and returned
C19_Witness ==
  /\ det.state = "returned"
  /\ det.ip = <<"0", ".", "2", "5", "5", ".", "0", "0", "7", ".",
                 "2", "5", "5">>
  /\ isValidIpv4(det.ip)

\* ------------------------------------------ reading a makeApiRequest() call
\* a makeApiRequest() call is in progress or over
InRequest == api.state \in {"primary", "alternative", "returned", "threw"}

\* the alternatives to a request for endpoint sent to version current: the
\* other versions of v5, v4, v3 in that order, then for a DNS-records path
\* its two other spellings
OtherSpellings(endpoint) ==
  CASE endpoint = <<"zones", "z", "dns_records">> ->
         <<<<"zones", "z", "dns">>, <<"zones", "z", "dns_records", "v2">>>>
    [] endpoint = <<"zones", "z", "dns_records", "r">> ->
         <<<<"zones", "z", "dns", "r">>,
           <<"zones", "z", "dns_records", "v2", "r">>>>
    [] OTHER -> <<>>
Fallbacks(endpoint, current) ==
  LET Other(v) == v # current
      versions == SelectSeq(<<"v5", "v4", "v3">>, Other)
      spellings == OtherSpellings(endpoint)
  IN (IF endpoint[1] = "zones"
      THEN [i \in 1..Len(versions) |-> Request(versions[i], endpoint)]
      ELSE <<>>)
     \o [i \in 1..Len(spellings) |-> Request(current, spellings[i])]

\* C20: after a 404 for a zones or DNS-records path the client sends the
\* request to the other versions of v5, v4, v3 in that order, then for a
\* DNS-records path to the spellings /dns and /dns_records/v2; the first
\* alternative that is answered with success is the last request sent and
\* its response is what the call returns.
C20_FirstSuccessfulAlternativeWins ==
  InRequest =>
    LET first == api.requests[1]
        sent == SubSeq(api.requests, 2, Len(api.requests))
    IN /\ first = Request(first.version, api.endpoint)
       /\ sent # <<>> => api.statuses[1] = 404
       /\ IsPrefix(sent, Fallbacks(api.endpoint, first.version))
       /\ api.state = "threw" /\ api.statuses[1] = 404 =>
            sent = Fallbacks(api.endpoint, first.version)
       /\ \A i \in 2..Len(api.statuses) :
            Resolves(api.statuses[i]) =>
              /\ i = Len(api.requests)
              /\ api.state = "returned"
              /\ api.response = i

\* C20, with success read as the answer the code accepts: the alternatives
\* are sent in the order above, one after the other; the first one answered
\* with status 200 is the last request sent and its response is what the
\* call returns; every other answer, another 2xx status included, is
\* followed by the next alternative, and after the last one by the throw.
C20_FirstAlternativeAnswering200Wins ==
  InRequest =>
    LET first == api.requests[1]
        sent == SubSeq(api.requests, 2, Len(api.requests))
    IN /\ first = Request(first.version, api.endpoint)
       /\ sent # <<>> => api.statuses[1] = 404
       /\ IsPrefix(sent, Fallbacks(api.endpoint, first.version))
       /\ api.state = "threw" /\ api.statuses[1] = 404 =>
            sent = Fallbacks(api.endpoint, first.version)
       /\ \A i \in 2..Len(api.statuses) :
            api.statuses[i] = 200 <=>
              /\ i = Len(api.requests)
              /\ api.state = "returned"
              /\ api.response = i

\* a record request to v4: 404, both other versions fail (one with a 2xx
\* status that is not 200), /dns fails, /dns_records/v2 answers 200
C20_Witness ==
  /\ api.state = "returned"
  /\ api.apiVersion = "v4"
  /\ Len(api.requests) = 5
  /\ api.response = 5
  /\ api.statuses[2] = 204
  /\ api.requests[5].endpoint = <<"zones", "z", "dns_records", "v2", "r">>

LastOf(seq) == seq[Len(seq)]
\* this step is the answer to the request sent last
IsAnswer == Len(api'.statuses) = Len(api.statuses) + 1
\* the request sent last is an alternative version of the original request
VersionAsked ==
  api.state = "alternative" /\ LastOf(api.requests).endpoint = api.endpoint
\* this step starts a makeApiRequest() call
IsNewRequest == api'.calls = api.calls + 1 /\ api'.state = "primary"

\* C21 as stated: the working version changes only in the step in which an
\* alternative version or a probe is answered with success, and to that
\* version; an alternative version answered with success becomes the
\* working version; every new request goes to the working version first.
C21_VersionFollowsSuccess ==
  [][/\ api'.apiVersion # api.apiVersion =>
          /\ VersionAsked \/ api.state = "probing"
          /\ IsAnswer
          /\ Resolves(LastOf(api'.statuses))
          /\ api'.apiVersion = LastOf(api.requests).version
     /\ VersionAsked /\ IsAnswer /\ Resolves(LastOf(api'.statuses)) =>
          api'.apiVersion = LastOf(api.requests).version
     /\ IsNewRequest =>
          /\ api'.apiVersion = api.apiVersion
          /\ api'.requests = <<Request(api.apiVersion, api'.endpoint)>>]_vars

\* C21: the working version changes only in the step in which an
\* alternative version, or a probe whose body reports success, is answered
\* with status 200, and to that version; an alternative version answered
\* with status 200 becomes the working version, one answered with anything
\* else, and every alternative spelling, leaves it as it is; every new
\* request goes to the working version first.
C21_VersionFollowsAccepted200 ==
  [][/\ api'.apiVersion # api.apiVersion =>
          /\ VersionAsked \/ (api.state = "probing" /\ LastOf(api'.probeOk))
          /\ IsAnswer
          /\ LastOf(api'.statuses) = 200
          /\ api'.apiVersion = LastOf(api.requests).version
     /\ VersionAsked /\ IsAnswer /\ LastOf(api'.statuses) = 200 =>
          api'.apiVersion = LastOf(api.requests).version
     /\ IsNewRequest =>
          /\ api'.apiVersion = api.apiVersion
          /\ api'.requests = <<Request(api.apiVersion, api'.endpoint)>>]_vars

\* a request first sent to v4 was answered 404, its alternative v5 failed
\* and its alternative v3 was answered 200: v3 is the working version
C21_Witness ==
  /\ api.state = "returned"
  /\ api.requests[1].version = "v4"
  /\ Len(api.requests) = 3
  /\ api.response = 3
  /\ api.apiVersion = "v3"

\* C22: a first answer that is neither a success nor a 404, and a 404 for
\* a path with neither /zones nor /dns_records, is thrown after that one
\* request; after a 404 with alternatives, once all of them were tried and
\* none was accepted, the error thrown is the 404 of the first request.
C22_OriginalErrorRaised ==
  InRequest /\ api.statuses # <<>> =>
    LET original == api.statuses[1]
        fallbacks == Fallbacks(api.endpoint, api.requests[1].version)
    IN /\ ~Resolves(original) /\ (original # 404 \/ fallbacks = <<>>) =>
            /\ api.state = "threw"
            /\ api.error = original
            /\ Len(api.requests) = 1
       /\ /\ original = 404
          /\ Len(api.requests) = 1 + Len(fallbacks)
          /\ Len(api.statuses) = Len(api.requests)
          /\ \A i \in 2..Len(api.statuses) : api.statuses[i] # 200
          => api.state = "threw" /\ api.error = 404
       /\ api.state = "threw" =>
            /\ api.error = original
            /\ api.response = 0
            /\ \A i \in 2..Len(api.statuses) : api.statuses[i] # 200

\* a record request to v4: 404, then four alternatives that fail with
\* other errors than 404
C22_Witness ==
  /\ api.state = "threw"
  /\ api.error = 404
  /\ Len(api.requests) = 5
  /\ api.statuses[5] = 500
  /\ api.statuses[4] = 0

\* ---------------------------------------- reading an updateDnsRecord() call
Failed(i) == upd.outcomes[i].kind = "error"
UpdateOver == upd.state = "returned"

\* C23: the update request is invoked at most RETRY_ATTEMPTS times; no
\* attempt follows one that succeeded; when RETRY_ATTEMPTS attempts have
\* failed, retryOperation throws the error of the last one and
\* updateDnsRecord returns false.
C23_AtMostRetryAttempts ==
  /\ Len(upd.puts) <= upd.RETRY_ATTEMPTS
  /\ Len(upd.outcomes) <= Len(upd.puts)
  /\ \A i \in 1..(Len(upd.puts) - 1) : Failed(i)
  /\ upd.thrown # NoError =>
       /\ UpdateOver
       /\ Len(upd.outcomes) = upd.RETRY_ATTEMPTS
       /\ \A i \in 1..Len(upd.outcomes) : Failed(i)
  /\ /\ UpdateOver
     /\ upd.RETRY_ATTEMPTS > 0
     /\ Len(upd.outcomes) = upd.RETRY_ATTEMPTS
     /\ Failed(Len(upd.outcomes))
     => /\ upd.thrown = LastOf(upd.outcomes)
        /\ upd.result = "false"

\* three attempts were made and failed in three different ways
C23_Witness ==
  /\ UpdateOver
  /\ upd.RETRY_ATTEMPTS = 3
  /\ Len(upd.puts) = 3
  /\ upd.outcomes[1].status = 500
  /\ upd.outcomes[2].status = 429
  /\ upd.thrown = LastOf(upd.outcomes)
  /\ upd.thrown.status = 0

\* the wait the statement gives for a failure
StatedWait(failure) ==
  IF failure.status = 429 /\ failure.retryAfter # <<>>
  THEN CASE failure.retryAfter = <<"2">> -> 2000
         [] failure.retryAfter = <<"0">> -> 0
         [] failure.retryAfter = <<"1", "0">> -> 10000
  ELSE upd.RETRY_DELAY

C25_UpdateReturnsBoolean ==
  /\ \A i \in 1..Len(upd.puts) : upd.puts[i] = upd.newIp
  /\ UpdateOver =>
       /\ upd.result \in {"true", "false"}
       /\ upd.result = "true" <=>
            /\ upd.outcomes # <<>>
            /\ LastOf(upd.outcomes) = [kind |-> "data", success |-> "true"]

\* a 403 on the first attempt, a success envelope on the second
C25_Witness ==
  /\ UpdateOver
  /\ upd.result = "true"
  /\ Len(upd.puts) = 2
  /\ upd.outcomes[1].status = 403

\* ------------------------------------------- reading an initialize() call
Asked(call) == \E k \in 1..Len(ini.requests) : ini.requests[k] = call
Listing(outcome) == IF outcome.kind = "data" THEN outcome.result ELSE <<>>
\* the zones listed whose name is the configured domain but for case
MatchingZones ==
  {z \in {Listing(ini.zones)[k] : k \in 1..Len(Listing(ini.zones))} :
     toLowerCase(z.name) = toLowerCase(ini.given.DOMAIN_NAME)}
\* an FQDN is configured, or is derived in step 2 or step 3
FqdnKnown ==
  \/ ini.given.FQDN # <<>>
  \/ ini.given.DOMAIN_NAME # <<>> /\ ini.given.SUBDOMAIN # <<>>
  \/ ini.lookup.kind = "data"

\* C26: with no ZONE_ID, a DOMAIN and several zones listed, the ZONE_ID
\* adopted is that of a zone whose name is the domain but for case; if
\* there is none, initialize() returns false and ZONE_ID stays unset.
C26_ZoneMatchesDomain ==
  /\ ini.given.ZONE_ID = ""
  /\ ini.given.DOMAIN_NAME # <<>>
  /\ Len(Listing(ini.zones)) > 1
  => IF MatchingZones # {}
     THEN ini.config.ZONE_ID \in {z.id : z \in MatchingZones}
     ELSE ini.result = "false" /\ ini.config.ZONE_ID = ""

\* C27: with no ZONE_ID, a zone listing that fails or is empty makes
\* initialize() return false; a listing of exactly one zone makes that
\* zone's id the ZONE_ID, whatever its name.
C27_ZeroOrOneZone ==
  ini.given.ZONE_ID = "" /\ ini.zones # NotAsked =>
    /\ Len(Listing(ini.zones)) = 0 =>
         ini.result = "false" /\ ini.config.ZONE_ID = ""
    /\ Len(Listing(ini.zones)) = 1 =>
         /\ ini.config.ZONE_ID = ini.zones.result[1].id
         /\ ini.zoneVia = "single"

\* the only zone listed is other.org, the domain is example.com
C27_Witness ==
  /\ ini.given.ZONE_ID = ""
  /\ ini.given.DOMAIN_NAME = <<"example", "com">>
  /\ ini.zones = Data(<<Zone("z2", <<"other", "org">>)>>)
  /\ ini.config.ZONE_ID = "z2"
  /\ ini.result = "true"

\* C28: the record the name search returns is adopted and no creation is
\* requested; the IP detection and the creation request that follow a
\* search happen only after a search that completed and returned no record.
C28_CreateOnlyIfNotFound ==
  ini.search # NotAsked =>
    /\ Len(Listing(ini.search)) > 0 =>
         /\ ini.config.RECORD_ID = ini.search.result[1].id
         /\ ini.via = "search"
         /\ ~Asked("detectIp") /\ ~Asked("createRecord")
    /\ Asked("createRecord") => ini.search = Data(<<>>)

\* C29: when a record has to be created, the creation request is sent only
\* with an address detected just before, as its content; a failed
\* detection, a rejected creation and a creation that errors make
\* initialize() return false with RECORD_ID unset; the id of a created
\* record becomes the RECORD_ID.
C29_CreationNeedsDetectedIp ==
  Asked("detectIp") /\ ini.detected # NotAsked =>
    /\ Asked("createRecord") =>
         ini.detected.kind = "data" /\ ini.posted = ini.detected.result
    /\ ini.detected.kind = "error" =>
         ini.result = "false" /\ ini.config.RECORD_ID = ""
    /\ ini.created.kind \in {"error", "unsuccessful"} =>
         ini.result = "false" /\ ini.config.RECORD_ID = ""
    /\ ini.created.kind = "data" =>
         /\ ini.created.result.content = ini.detected.result
         /\ ini.config.RECORD_ID = ini.created.result.id
         /\ ini.via = "create"

\* the search found nothing, an address was detected, the record created
C29_Witness ==
  /\ ini.search = Data(<<>>)
  /\ ini.detected = Data("198.51.100.9")
  /\ ini.created = Data([id |-> "r9", content |-> "198.51.100.9"])
  /\ ini.config.RECORD_ID = "r9"
  /\ ini.result = "true"

\* C30: with an FQDN configured or derived, the listing of all A records
\* is never requested and no record is adopted from it; if the FQDN's
\* record is neither found nor created, initialize() returns false.
C30_NoFallbackWithFqdn ==
  FqdnKnown =>
    /\ ~Asked("findSuitable")
    /\ ini.via # "list"
    /\ /\ ini.state = "returned"
       /\ ini.given.RECORD_ID = ""
       /\ ini.via \notin {"search", "create"}
       => ini.result = "false" /\ ini.config.RECORD_ID = ""

\* in the class without the refusal in findSuitableRecord: the search
\* found nothing and the creation was rejected
C30_Witness ==
  /\ ini.legacy
  /\ FqdnKnown
  /\ ini.search = Data(<<>>)
  /\ ini.created = Unsuccessful
  /\ ini.result = "false"

\* C31: initialize() ends by returning true or false, never by throwing,
\* and when it returns true the ZONE_ID and the RECORD_ID of the
\* configuration are both non-empty.
C31_TrueMeansResolved ==
  /\ ini.state = "returned" <=> ini.result \in {"true", "false"}
  /\ ini.result = "true" =>
       ini.config.ZONE_ID # "" /\ ini.config.RECORD_ID # ""

\* nothing was configured but the token: the zone and the record were found
C31_Witness ==
  /\ ini.given.ZONE_ID = "" /\ ini.given.RECORD_ID = ""
  /\ ini.given.FQDN = <<>>
  /\ ini.result = "true"
  /\ ini.zoneVia = "single" /\ ini.via = "list"
  /\ ini.config.ZONE_ID # "" /\ ini.config.RECORD_ID # ""

\* C32 (as stated): initialize() is executed once per process: the cycles
\* after the first do not invoke it.
C32_InitializeOncePerProcess ==
  cycles >= 2 => Calls(cycleLog, "initialize") = {}

\* a cycle that called a service: not one refused by needsSetup(), not the
\* simulated cycle of development mode
ServiceCycle(log) == log # <<>> /\ log[1].op # "saveIp"

\* C32 (amended): every cycle that calls a service, the first and the
\* later ones alike, calls initialize() exactly once, as its first call,
\* and calls updateDnsRecord only after that initialize() returned true.
C32_InitializeEveryCycle ==
  \A log \in {cycleLog, prevLog} :
    ServiceCycle(log) =>
      /\ Calls(log, "initialize") = {1}
      /\ Calls(log, "updateDnsRecord") # {} => log[1].status = "ok"

\* the second cycle of a process initialized again, then updated
C32_Witness ==
  /\ cycles = 2
  /\ Calls(prevLog, "initialize") = {1}
  /\ Calls(cycleLog, "initialize") = {1}
  /\ Calls(cycleLog, "updateDnsRecord") # {}

\* -------------------------------------- reading a verifyCredentials() call
ReportsSuccess(outcome) == outcome.kind = "body" /\ outcome.success = "true"

\* C33: verifyCredentials() ends by returning true or false, never by
\* throwing; it returns true when the token-verify request reports
\* success, without a second request; after any other end of that request
\* it requests a listing of one zone and returns true exactly when that
\* request reports success.
C33_VerifyWithFallback ==
  /\ ver.state = "returned" <=> ver.result \in {"true", "false"}
  /\ ver.state = "returned" =>
       IF ReportsSuccess(ver.first)
       THEN /\ ver.result = "true"
            /\ ver.second = NotAsked
            /\ Len(ver.requests) = 1
       ELSE /\ ver.second # NotAsked
            /\ ver.requests = <<<<"user", "tokens", "verify">>,
                                <<"zones", "?per_page=1">>>>
            /\ ver.result = "true" <=> ReportsSuccess(ver.second)
  /\ ver.state = "listZones" => ~ReportsSuccess(ver.first)

\* the token-verify request was refused, the zone listing succeeded
C33_Witness ==
  /\ ver.state = "returned"
  /\ ver.first = [kind |-> "error", status |-> 403]
  /\ ReportsSuccess(ver.second)
  /\ ver.result = "true"

\* ------------------------------------------------- reading a ConfigManager
Present(name) == name # <<>> /\ name # Blank

\* C34: the configuration of a constructed ConfigManager always has
\* FQDN = SUBDOMAIN.DOMAIN when both are non-blank, and FQDN = DOMAIN when
\* only the domain is, whatever it was constructed from and whatever
\* set() was called with.
C34_FqdnInvariant ==
  cm.state = "ready" =>
    /\ Present(cm.config.SUBDOMAIN) /\ Present(cm.config.DOMAIN_NAME) =>
         cm.config.FQDN = cm.config.SUBDOMAIN \o cm.config.DOMAIN_NAME
    /\ ~Present(cm.config.SUBDOMAIN) /\ Present(cm.config.DOMAIN_NAME) =>
         cm.config.FQDN = cm.config.DOMAIN_NAME

\* C35: the last-IP file never fails a cycle by itself: getLastIp()
\* returns, and returns null when the file cannot be read, and the cycle
\* goes on to update the record; when saveIp() returns false after a
\* successful update, runOnce() still returns true and the record keeps
\* the address.
C35_FileFailuresTolerated ==
  /\ \A r \in Calls(cycleLog, "getLastIp") :
       /\ cycleLog[r].status = "ok"
       /\ ~fileReadable => cycleLog[r].ip = NoIp
       /\ cycleLog[r].ip = NoIp =>
            /\ Len(cycleLog) > r
            /\ cycleLog[r + 1].op = "updateDnsRecord"
            /\ cycleLog[r + 1].ip = Detected(cycleLog)
  /\ \A w \in Calls(cycleLog, "saveIp") :
       (~DevMock /\ cycleLog[w].status = "failed") =>
          /\ cycleLog[w - 1].op = "updateDnsRecord"
          /\ cycleLog[w - 1].status = "ok"
          /\ result
          /\ dnsRecord = cycleLog[w].ip

\* the file exists but can be neither read nor written; the cycle updated
\* the record and returned true
C35_Witness ==
  /\ lastIpFile # NoFile /\ ~fileReadable /\ ~fileWritable
  /\ \E r \in Calls(cycleLog, "getLastIp") : cycleLog[r].ip = NoIp
  /\ \E w \in Calls(cycleLog, "saveIp") : cycleLog[w].status = "failed"
  /\ result /\ ~isRunning
  /\ dnsRecord = Detected(cycleLog)

\* C36: updateDnsRecord called while the zone identifier or the record
\* identifier is unknown sends no request and returns false.
C36_NoRequestWithoutIds ==
  (~upd.resolved /\ upd.state # "idle") =>
     /\ upd.puts = <<>>
     /\ upd.state = "returned"
     /\ upd.result = "false"

\* C40: every call of updateDnsRecord made with resolved identifiers has
\* sent at least one update request when it returns, whatever
\* RETRY_ATTEMPTS is.
C40_AtLeastOneRequest ==
  (upd.resolved /\ upd.state = "returned") => Len(upd.puts) >= 1

\* C38: whenever initialize() returns true, the ZONE_ID, the RECORD_ID and
\* the FQDN of the configuration are all non-empty.
C38_TrueMeansTriple ==
  ini.result = "true" =>
    /\ ini.config.ZONE_ID # ""
    /\ ini.config.RECORD_ID # ""
    /\ ini.config.FQDN # <<>>

\* the configuration an initialize() call found had all three parts
TripleKnown ==
  /\ ini.given.ZONE_ID # ""
  /\ ini.given.RECORD_ID # ""
  /\ ini.given.FQDN # <<>>

\* C39: an initialize() call that finds ZONE_ID, RECORD_ID and FQDN all
\* known sends no discovery request, leaves the configuration as it found
\* it and returns true.
C39_InitializeIdempotent ==
  (ini.calls >= 1 /\ TripleKnown) =>
     /\ ini.requests = <<>>
     /\ ini.state = "returned"
     /\ ini.result = "true"
     /\ ini.config = ini.given

\* the second call of a service whose first call discovered the zone and
\* created the record
C39_Witness ==
  /\ ini.calls = 2
  /\ ini.given.ZONE_ID = "z2" /\ ini.given.RECORD_ID = "r9"
  /\ ini.given.FQDN = <<"home", "example", "com">>
  /\ ini.requests = <<>>
  /\ ini.result = "true"

\* C37: in a continuous run in which the public address has changed to
\* NewIp and stays NewIp, and the services succeed from some point on,
\* eventually an updateDnsRecord(NewIp) has succeeded and the last-IP file
\* holds NewIp (the file being writable).
C37_EventuallyInSync ==
  fileWritable => <>(dnsRecord = NewIp /\ lastIpFile.text = NewIp)

====
